---- MODULE Spec2Model ----
(***************************************************************************)
(* tty-interface: the staged cell grid (State), the Interface that stages  *)
(* text into an alternate State and commits it with apply(), and the       *)
(* terminal the committed cells are printed on.                            *)
(*                                                                         *)
(* State (cells, dirty) is src/src/state.rs.  Interface::set's placement   *)
(* walk and apply's "nothing staged" return and swap are src/src/lib.rs.   *)
(* The State-based emission loop of apply, set_styled, the clear_*         *)
(* delegations, set_cursor, the two construction modes and exit are not in *)
(* the sources; they follow sections 4.4 - 4.8 of the specification.  The  *)
(* relative cursor motion is that of src/src/terminal.rs.  The terminal is *)
(* the vt100 screen that src/src/test.rs wraps as VirtualDevice.           *)
(*                                                                         *)
(* Spec and SpecModes run a constructed Interface; SpecLife adds the       *)
(* constructors step by step and Device errors; SpecPosition, SpecState    *)
(* and SpecMotion call Position, State and Terminal::move_cursor directly. *)
(*                                                                         *)
(* The Interface of lines and segments (src/src/interface.rs, line.rs,     *)
(* segment.rs, layout.rs, terminal.rs) is run by SpecLines: its staging    *)
(* calls, apply_changes() with its rendering and Device errors, and        *)
(* terminal resizes.  SpecChunks calls Terminal::get_chunks directly.      *)
(***************************************************************************)
EXTENDS Integers, Sequences, FiniteSets, TLC

VARIABLES
    mode,           \* Interface.mode: "Absolute" or "Relative"
    exited,         \* exit() has consumed the Interface
    current,        \* Interface.current: the committed State
    alternate,      \* Interface.alternate: Option<State>
    cursor,         \* Interface.cursor: the tracked physical cursor
    staged_cursor,  \* Interface.staged_cursor: Option<Position>
    term,           \* the terminal behind the Device: screen, cursor, visibility
    out,            \* the commands written to the Device by the last operation
    op,             \* the last operation and its arguments
    hist,           \* history of the current batch of staging operations
    steps,          \* number of operations performed
    lines,          \* Interface.lines of src/src/interface.rs: the line store
    allow_optimization, \* Interface.allow_optimization of src/src/interface.rs
    ID_VALUE        \* the identifier counters of src/src/line.rs and segment.rs

vars ==
    <<mode, exited, current, alternate, cursor, staged_cursor, term, out, op,
      hist, steps, lines, allow_optimization, ID_VALUE>>

\* The store of lines, the optimization switch and the identifier counters
\* belong to the Line / Segment interface; the cell-grid Interface has none.
line_vars == <<lines, allow_optimization, ID_VALUE>>

NoLines ==
    /\ lines = <<>>
    /\ allow_optimization = TRUE
    /\ ID_VALUE = [line |-> 0, segment |-> 0]

----------------------------------------------------------------------------
(* Bounds *)

\* Terminal size reported by the Device: columns and rows.
SizeX == 2
SizeY == 2
\* Number of operations in one run.
MaxSteps == 4

----------------------------------------------------------------------------
(* Option<T>: None is the empty sequence, Some(v) the one-element sequence *)

None == <<>>
Some(v) == <<v>>
IsSome(o) == o /= <<>>
Unwrap(o) == o[1]

----------------------------------------------------------------------------
(* Position *)

pos(x, y) == [x |-> x, y |-> y]

cmp_u16(a, b) == IF a < b THEN "Less" ELSE IF a = b THEN "Equal" ELSE "Greater"

\* A field-order comparison (column first), as a derived ordering would give.
cmp_column_major(a, b) ==
    IF cmp_u16(a.x, b.x) = "Equal" THEN cmp_u16(a.y, b.y) ELSE cmp_u16(a.x, b.x)

\* impl Ord for Position: by row, then by column.
cmp(a, b) ==
    IF cmp_u16(a.y, b.y) = "Equal" THEN cmp_u16(a.x, b.x) ELSE cmp_u16(a.y, b.y)

\* impl PartialOrd for Position: Some(self.cmp(other)).
partial_cmp(a, b) == Some(cmp(a, b))

\* The greatest u16.
U16_MAX == 65535

\* Position::translate: `self.x + diff_x`, `self.y + diff_y` on u16.  The sum
\* wraps around in a build without overflow checks ...
translate(p, diff_x, diff_y) ==
    pos((p.x + diff_x) % (U16_MAX + 1), (p.y + diff_y) % (U16_MAX + 1))

\* ... and panics in a build with them when a sum does not fit in u16.
translate_overflows(p, diff_x, diff_y) ==
    p.x + diff_x > U16_MAX \/ p.y + diff_y > U16_MAX

----------------------------------------------------------------------------
(* Style and Cell *)

Style_default ==
    [foreground_color |-> None, background_color |-> None,
     is_bold |-> FALSE, is_italic |-> FALSE, is_underline |-> FALSE]

set_bold(style, is_bold) == [style EXCEPT !.is_bold = is_bold]

Cell(grapheme, style) == [grapheme |-> grapheme, style |-> style]

----------------------------------------------------------------------------
(* State: sparse cells (BTreeMap) and dirty positions (BTreeSet) *)

State_new == [cells |-> [p \in {} |-> Cell("", None)], dirty |-> {}]

\* BTreeMap::get
get(cells, position) ==
    IF position \in DOMAIN cells THEN Some(cells[position]) ELSE None

\* BTreeMap::insert
insert(cells, position, cell) ==
    [p \in (DOMAIN cells) \cup {position} |->
        IF p = position THEN cell ELSE cells[p]]

\* BTreeMap::remove
remove(cells, position) ==
    [p \in (DOMAIN cells) \ {position} |-> cells[p]]

\* handle_cell_update without the "unchanged" test.
handle_cell_update_always_dirty(state, position, grapheme, style) ==
    [cells |-> insert(state.cells, position, Cell(grapheme, style)),
     dirty |-> state.dirty \cup {position}]

\* Updates state and queues dirtied positions, if they've changed.
handle_cell_update(state, position, grapheme, style) ==
    LET new_cell == Cell(grapheme, style) IN
    IF Some(new_cell) = get(state.cells, position)
    THEN state
    ELSE [cells |-> insert(state.cells, position, new_cell),
          dirty |-> state.dirty \cup {position}]

set_text(state, position, grapheme) ==
    handle_cell_update(state, position, grapheme, None)

set_styled_text(state, position, grapheme, style) ==
    handle_cell_update(state, position, grapheme, Some(style))

\* The positions of the stored cells that a clear filter selects; a filter
\* is a function from the stored positions to BOOLEAN.
cell_positions(state, filter) == {p \in DOMAIN state.cells : filter[p]}

RECURSIVE remove_all(_, _)
remove_all(cells, positions) ==
    IF positions = {} THEN cells
    ELSE LET p == CHOOSE q \in positions : TRUE
         IN remove_all(remove(cells, p), positions \ {p})

\* handle_cell_clears that forgets to mark the removed positions dirty.
handle_cell_clears_not_dirty(state, filter) ==
    [cells |-> remove_all(state.cells, cell_positions(state, filter)),
     dirty |-> state.dirty]

\* Clears cells matching the filter, marking them dirtied for re-render.
handle_cell_clears(state, filter) ==
    LET deleted == cell_positions(state, filter) IN
    [cells |-> remove_all(state.cells, deleted),
     dirty |-> state.dirty \cup deleted]

\* clear_line whose filter takes every row from `line` on.
clear_line_from(state, line) ==
    handle_cell_clears(state,
        [position \in DOMAIN state.cells |-> position.y >= line])

clear_line(state, line) ==
    handle_cell_clears(state,
        [position \in DOMAIN state.cells |-> position.y = line])

\* clear_rest_of_line that takes the whole row of `from`.
clear_rest_of_line_whole_row(state, from) ==
    handle_cell_clears(state,
        [position \in DOMAIN state.cells |-> position.y = from.y])

clear_rest_of_line(state, from) ==
    handle_cell_clears(state,
        [position \in DOMAIN state.cells |->
            position.y = from.y /\ position.x >= from.x])

\* clear_rest_of_interface that compares row and column separately, leaving
\* the columns left of `from` in the later rows.
clear_rest_of_interface_right_of(state, from) ==
    handle_cell_clears(state,
        [position \in DOMAIN state.cells |->
            position.y >= from.y /\ position.x >= from.x])

clear_rest_of_interface(state, from) ==
    handle_cell_clears(state,
        [position \in DOMAIN state.cells |-> cmp(position, from) /= "Less"])

\* clear_dirty that leaves the dirty positions queued.
clear_dirty_keeps(state) == state

\* clear_dirty that also drops the cells.
clear_dirty_and_cells(state) == State_new

clear_dirty(state) == [state EXCEPT !.dirty = {}]

\* The positions taken column by column.
in_column_order(positions) ==
    [index \in 1..Cardinality(positions) |->
        CHOOSE p \in positions :
            Cardinality({q \in positions :
                cmp_column_major(q, p) = "Less"}) = index - 1]

\* The positions of a BTreeSet in iteration order, that of Position's Ord:
\* the position at index i has exactly i - 1 positions before it.
in_order(positions) ==
    [index \in 1..Cardinality(positions) |->
        CHOOSE p \in positions :
            Cardinality({q \in positions : cmp(q, p) = "Less"}) = index - 1]

\* dirty_iter that walks the dirty positions column by column.
dirty_iter_column_major(state) ==
    LET positions == in_column_order(state.dirty) IN
    [index \in 1..Len(positions) |->
        <<positions[index], get(state.cells, positions[index])>>]

\* get_last_position that takes the cell of the greatest column.
get_last_position_column_major(state) ==
    IF DOMAIN state.cells = {} THEN None
    ELSE Some(CHOOSE p \in DOMAIN state.cells :
                \A q \in DOMAIN state.cells : cmp_column_major(q, p) /= "Greater")

\* Get the last cell's position: the greatest key of cells.
get_last_position(state) ==
    IF DOMAIN state.cells = {} THEN None
    ELSE Some(CHOOSE p \in DOMAIN state.cells :
                \A q \in DOMAIN state.cells : cmp(q, p) /= "Greater")

\* dirty_iter that passes over the dirty positions whose cell was removed.
dirty_iter_stored_only(state) ==
    LET positions == in_order(state.dirty \cap DOMAIN state.cells) IN
    [index \in 1..Len(positions) |->
        <<positions[index], get(state.cells, positions[index])>>]

\* dirty_iter / StateIter: (position, Option<Cell>) for each dirty position.
dirty_iter(state) ==
    LET positions == in_order(state.dirty) IN
    [index \in 1..Len(positions) |->
        <<positions[index], get(state.cells, positions[index])>>]

----------------------------------------------------------------------------
(* The terminal behind the Device: a SizeX x SizeY screen with autowrap *)

Viewport == {pos(x, y) : x \in 0..(SizeX - 1), y \in 0..(SizeY - 1)}

\* A screen cell nothing was printed on.
Empty == [grapheme |-> "", style |-> Style_default]

IsBlank(screen_cell) == screen_cell.grapheme \in {"", " "}

Min(a, b) == IF a < b THEN a ELSE b

Max(a, b) == IF a > b THEN a ELSE b

\* The terminal after construction in alternate mode: raw mode enabled,
\* alternate screen entered and cleared, cursor hidden and parked at (0, 0).
\* `origin` is the screen row that shows row 0 of the interface; it moves up
\* with the content when the screen scrolls.
Term_new ==
    [screen |-> [p \in Viewport |-> Empty], cur |-> pos(0, 0), visible |-> FALSE,
     origin |-> 0, alternate_screen |-> TRUE, raw_mode |-> TRUE]

\* The terminal after construction in relative mode with the cursor found at
\* column 0 of `row`: raw mode enabled, nothing entered, cleared or hidden.
Term_relative(row) ==
    [screen |-> [p \in Viewport |-> Empty], cur |-> pos(0, row), visible |-> TRUE,
     origin |-> row, alternate_screen |-> FALSE, raw_mode |-> TRUE]

\* Move To: the terminal keeps its cursor inside the screen.
term_move_to(t, position) ==
    [t EXCEPT !.cur = pos(Min(position.x, SizeX - 1), Min(position.y, SizeY - 1))]

\* The screen scrolled up by one row.
scroll_up(screen) ==
    [p \in Viewport |->
        IF p.y = SizeY - 1 THEN Empty ELSE screen[pos(p.x, p.y + 1)]]

\* Print of one grapheme: a cursor left past the last column by the previous
\* print wraps to the next row first, scrolling when it is on the last row.
term_print(t, grapheme, style) ==
    LET wraps == t.cur.x > SizeX - 1
        scrolls == wraps /\ t.cur.y = SizeY - 1
        row == IF ~wraps \/ scrolls THEN t.cur.y ELSE t.cur.y + 1
        column == IF wraps THEN 0 ELSE t.cur.x
        screen == IF scrolls THEN scroll_up(t.screen) ELSE t.screen
    IN [t EXCEPT
          !.screen = [screen EXCEPT
                        ![pos(column, row)] = [grapheme |-> grapheme, style |-> style]],
          !.cur = pos(column + 1, row),
          !.origin = IF scrolls THEN t.origin - 1 ELSE t.origin]

term_set_visible(t, visible) == [t EXCEPT !.visible = visible]

\* Cursor Right / Left / Up by n: the cursor stops at the edge of the screen.
term_move_right(t, n) == [t EXCEPT !.cur = pos(Min(t.cur.x + n, SizeX - 1), t.cur.y)]

term_move_left(t, n) == [t EXCEPT !.cur = pos(Max(t.cur.x - n, 0), t.cur.y)]

term_move_up(t, n) == [t EXCEPT !.cur = pos(t.cur.x, Max(t.cur.y - n, 0))]

\* n line feeds: each moves the cursor down one row in its column, scrolling
\* the screen when the cursor is on the last row.
RECURSIVE term_newlines(_, _)
term_newlines(t, n) ==
    IF n = 0 THEN t
    ELSE term_newlines(
            IF t.cur.y = SizeY - 1
            THEN [t EXCEPT !.screen = scroll_up(t.screen), !.origin = t.origin - 1]
            ELSE [t EXCEPT !.cur = pos(t.cur.x, t.cur.y + 1)],
            n - 1)

\* Leave Alternate Screen and disable raw mode.
term_leave_alternate_screen(t) == [t EXCEPT !.alternate_screen = FALSE]

term_disable_raw_mode(t) == [t EXCEPT !.raw_mode = FALSE]

\* One command written to the Device.  `at` is the position the command is
\* for, `n` the count of a relative motion.
Command(name, at, text) == [cmd |-> name, at |-> at, text |-> text, n |-> 0]

Motion(name, at, n) == [cmd |-> name, at |-> at, text |-> "", n |-> n]

----------------------------------------------------------------------------
(* Interface: staging *)

\* Inputs of the staging operations.
Graphemes == {"A", "B"}
Texts == {<<"A">>, <<"B">>, <<"A", "B", "A">>}
Styles == {set_bold(Style_default, TRUE)}
StagePositions == {pos(0, 0), pos(SizeX - 1, 0), pos(0, SizeY)}
StageLines == {0, SizeY}
StageCursors == {None, Some(pos(0, 0))}

\* Every position a staging operation can reach from these inputs.
PosUniverse == {pos(x, y) : x \in 0..SizeX, y \in 0..(SizeY + 1)}

\* get_alternate_mut that hands out a fresh copy of current every time.
get_alternate_mut_always_clone(alt, cur) == cur

\* alternate.get_or_insert_with(|| current.clone())
get_alternate_mut(alt, cur) == IF alt = None THEN cur ELSE Unwrap(alt)

\* The state the next staging operation works on.
Staged == get_alternate_mut(alternate, current)

\* The walk of Interface::set over the graphemes: the positions of the first
\* `count` graphemes of a text staged at (column, line).
RECURSIVE walk(_, _, _, _)
walk(line, column, count, placed) ==
    IF count = 0 THEN placed
    ELSE LET wraps == column > SizeX
             c == IF wraps THEN 0 ELSE column
             l == IF wraps THEN line + 1 ELSE line
         IN walk(l, c + 1, count - 1, Append(placed, pos(c, l)))

placements(position, count) == walk(position.y, position.x, count, <<>>)

RECURSIVE store_from(_, _, _, _, _)
store_from(state, places, text, style, index) ==
    IF index > Len(text) THEN state
    ELSE store_from(handle_cell_update(state, places[index], text[index], style),
                    places, text, style, index + 1)

\* The body of Interface::set: each grapheme stored at its position.
stage_text(state, position, text, style) ==
    store_from(state, placements(position, Len(text)), text, style, 1)

----------------------------------------------------------------------------
(* History of the batch being staged (not part of the program state) *)

Operation(name, position, text, style) ==
    [name |-> name, position |-> position, text |-> text, style |-> style,
     result |-> "Ok"]

StagingNames ==
    {"set", "set_styled", "clear_line", "clear_rest_of_line",
     "clear_rest_of_interface", "set_cursor"}

\* For every position an operation of the batch touched: how often (1, or 2
\* for more than once), the outcome the last such operation asked for,
\* whether an operation changed the staged cell, and whether one removed it.
note(batch, before, after, outcomes, is_clear) ==
    [p \in (DOMAIN batch) \cup (DOMAIN outcomes) |->
        IF p \in DOMAIN outcomes
        THEN [n |-> IF p \in DOMAIN batch THEN 2 ELSE 1,
              last |-> outcomes[p],
              changed |-> (p \in DOMAIN batch /\ batch[p].changed)
                            \/ get(before.cells, p) /= get(after.cells, p),
              cleared |-> (p \in DOMAIN batch /\ batch[p].cleared)
                            \/ (is_clear /\ p \in DOMAIN before.cells)]
        ELSE batch[p]]

\* What every staging operation does besides its own effect.
Stage(before, after, operation, outcomes, is_clear, in_view) ==
    /\ steps < MaxSteps
    /\ ~exited
    /\ UNCHANGED <<mode, exited>>
    /\ alternate' = Some(after)
    /\ hist' = [batch |-> note(IF alternate = None THEN <<>> ELSE hist.batch,
                               before, after, outcomes, is_clear),
                in_view |-> hist.in_view /\ in_view]
    /\ op' = operation
    /\ out' = <<>>
    /\ steps' = steps + 1
    /\ UNCHANGED line_vars

\* The cells a text asks for, by position.
asked(position, text, style) ==
    LET places == placements(position, Len(text)) IN
    [p \in {places[i] : i \in 1..Len(text)} |->
        Some(Cell(text[CHOOSE i \in 1..Len(text) : places[i] = p], style))]

\* The outcome a clear asks for at each of the positions it covers.
cleared_outcomes(positions) == [p \in positions |-> None]

----------------------------------------------------------------------------
(* Interface: the operations *)

\* set that stages straight into the committed state.
set_into_current(position, text) ==
    LET after == stage_text(current, position, text, None) IN
    /\ Stage(Staged, after, Operation("set", Some(position), text, None),
             asked(position, text, None), FALSE, position \in Viewport)
    /\ current' = after
    /\ UNCHANGED <<cursor, staged_cursor, term>>

set(position, text) ==
    LET before == get_alternate_mut(alternate, current)
        after == stage_text(before, position, text, None)
    IN /\ Stage(before, after, Operation("set", Some(position), text, None),
                asked(position, text, None), FALSE, position \in Viewport)
       /\ UNCHANGED <<current, cursor, staged_cursor, term>>

set_styled(position, text, style) ==
    LET before == get_alternate_mut(alternate, current)
        after == stage_text(before, position, text, Some(style))
    IN /\ Stage(before, after,
                Operation("set_styled", Some(position), text, Some(style)),
                asked(position, text, Some(style)), FALSE, position \in Viewport)
       /\ UNCHANGED <<current, cursor, staged_cursor, term>>

Interface_clear_line(line) ==
    LET before == get_alternate_mut(alternate, current)
        after == clear_line(before, line)
        covered == {q \in PosUniverse : q.y = line}
    IN /\ Stage(before, after,
                Operation("clear_line", Some(pos(0, line)), <<>>, None),
                cleared_outcomes(covered), TRUE, line < SizeY)
       /\ UNCHANGED <<current, cursor, staged_cursor, term>>

Interface_clear_rest_of_line(from) ==
    LET before == get_alternate_mut(alternate, current)
        after == clear_rest_of_line(before, from)
        covered == {q \in PosUniverse : q.y = from.y /\ q.x >= from.x}
    IN /\ Stage(before, after,
                Operation("clear_rest_of_line", Some(from), <<>>, None),
                cleared_outcomes(covered), TRUE, from \in Viewport)
       /\ UNCHANGED <<current, cursor, staged_cursor, term>>

Interface_clear_rest_of_interface(from) ==
    LET before == get_alternate_mut(alternate, current)
        after == clear_rest_of_interface(before, from)
        covered == {q \in PosUniverse : q.y > from.y \/ (q.y = from.y /\ q.x >= from.x)}
    IN /\ Stage(before, after,
                Operation("clear_rest_of_interface", Some(from), <<>>, None),
                cleared_outcomes(covered), TRUE, from \in Viewport)
       /\ UNCHANGED <<current, cursor, staged_cursor, term>>

set_cursor(position) ==
    LET before == get_alternate_mut(alternate, current) IN
    /\ Stage(before, before, Operation("set_cursor", position, <<>>, None),
             <<>>, FALSE, TRUE)
    /\ staged_cursor' = position
    /\ UNCHANGED <<current, cursor, term>>

\* Cursor motion in absolute mode: one Move To; the tracked cursor is the target.
move_cursor_absolute(st, position) ==
    [term |-> term_move_to(st.term, position),
     cursor |-> position,
     out |-> Append(st.out, Command("MoveTo", position, ""))]

\* The greatest i16.
I16_MAX == 32767

\* `v as i16` and `v as u16`: the low 16 bits, signed and unsigned.
as_i16(v) ==
    IF v % (U16_MAX + 1) > I16_MAX
    THEN (v % (U16_MAX + 1)) - (U16_MAX + 1)
    ELSE v % (U16_MAX + 1)

as_u16(v) == v % (U16_MAX + 1)

\* a - b on i16 in a build without overflow checks: the difference wraps.
sub_i16(a, b) == as_i16(a - b)

\* A build with overflow checks panics in move_cursor when a difference of
\* the casts does not fit in i16, or is the least i16, whose abs() overflows.
move_cursor_overflows(from, to) ==
    \/ as_i16(to.x) - as_i16(from.x) \notin (-I16_MAX)..I16_MAX
    \/ as_i16(to.y) - as_i16(from.y) \notin (-I16_MAX)..I16_MAX

\* Cursor motion in relative mode: the column difference from the tracked
\* cursor as Right or Left, then the row difference as line feeds or Up.  The
\* differences are taken on the coordinates cast to i16.
move_cursor_relative(st, position) ==
    LET column_diff == sub_i16(as_i16(position.x), as_i16(st.cursor.x))
        row_diff == sub_i16(as_i16(position.y), as_i16(st.cursor.y))
        sideways ==
            IF column_diff > 0
            THEN [term |-> term_move_right(st.term, as_u16(column_diff)),
                  out |-> Append(st.out,
                                 Motion("Right", position, as_u16(column_diff)))]
            ELSE IF column_diff < 0
            THEN [term |-> term_move_left(st.term, as_u16(-column_diff)),
                  out |-> Append(st.out,
                                 Motion("Left", position, as_u16(-column_diff)))]
            ELSE [term |-> st.term, out |-> st.out]
        upright ==
            IF row_diff > 0
            THEN [term |-> term_newlines(sideways.term, as_u16(row_diff)),
                  out |-> Append(sideways.out,
                                 Motion("Down", position, as_u16(row_diff)))]
            ELSE IF row_diff < 0
            THEN [term |-> term_move_up(sideways.term, as_u16(-row_diff)),
                  out |-> Append(sideways.out,
                                 Motion("Up", position, as_u16(-row_diff)))]
            ELSE sideways
    IN [term |-> upright.term, cursor |-> position, out |-> upright.out]

\* Cursor motion by the Interface's mode; the tracked cursor is the target.
move_cursor_to(st, position) ==
    IF mode = "Absolute" THEN move_cursor_absolute(st, position)
    ELSE move_cursor_relative(st, position)

\* move_cursor that emits its motion also when the tracked cursor is
\* already at the target.
move_cursor_always(st, position) == move_cursor_to(st, position)

\* Terminal::move_cursor: nothing is emitted when the tracked cursor is at
\* the target.
move_cursor(st, position) ==
    IF position = st.cursor THEN st ELSE move_cursor_to(st, position)

\* One dirty position: move unless the tracked cursor is there, print the
\* cell (a plain space for a removed cell), advance the tracked cursor.
emit_cell(st, position, cell) ==
    LET at == move_cursor(st, position)
        grapheme == IF IsSome(cell) THEN Unwrap(cell).grapheme ELSE " "
        style == IF IsSome(cell) /\ IsSome(Unwrap(cell).style)
                 THEN Unwrap(Unwrap(cell).style) ELSE Style_default
    IN [term |-> term_print(at.term, grapheme, style),
        cursor |-> translate(at.cursor, 1, 0),
        out |-> Append(at.out, Command("Print", position, grapheme))]

RECURSIVE emit_cells(_, _, _)
emit_cells(dirty_cells, index, st) ==
    IF index > Len(dirty_cells) THEN st
    ELSE emit_cells(dirty_cells, index + 1,
                    emit_cell(st, dirty_cells[index][1], dirty_cells[index][2]))

\* apply with nothing staged, returning only after the cursor was hidden.
apply_nothing_staged_hides ==
    /\ steps < MaxSteps
    /\ ~exited
    /\ alternate = None
    /\ term' = term_set_visible(term, FALSE)
    /\ out' = <<Command("Hide", pos(0, 0), "")>>
    /\ op' = Operation("apply", None, <<>>, None)
    /\ steps' = steps + 1
    /\ UNCHANGED line_vars
    /\ UNCHANGED <<mode, exited, current, alternate, cursor, staged_cursor, hist>>

\* apply: if self.alternate.is_none() { return Ok(()) }
apply_nothing_staged ==
    /\ steps < MaxSteps
    /\ ~exited
    /\ alternate = None
    /\ out' = <<>>
    /\ op' = Operation("apply", None, <<>>, None)
    /\ steps' = steps + 1
    /\ UNCHANGED line_vars
    /\ UNCHANGED <<mode, exited, current, alternate, cursor, staged_cursor, term,
                   hist>>

\* apply with staged changes: swap, hide the cursor, emit the dirty cells in
\* order, place the staged cursor, flush, clear dirty.
apply_staged ==
    /\ steps < MaxSteps
    /\ ~exited
    /\ alternate /= None
    /\ LET committed == Unwrap(alternate)
           dirty_cells == dirty_iter(committed)
           hidden == [term |-> term_set_visible(term, FALSE),
                      cursor |-> cursor,
                      out |-> <<Command("Hide", pos(0, 0), "")>>]
           printed == emit_cells(dirty_cells, 1, hidden)
           moved == IF IsSome(staged_cursor)
                    THEN move_cursor_to(printed, Unwrap(staged_cursor))
                    ELSE printed
           shown == IF IsSome(staged_cursor)
                    THEN [moved EXCEPT
                            !.term = term_set_visible(moved.term, TRUE),
                            !.out = Append(moved.out,
                                           Command("Show", Unwrap(staged_cursor), ""))]
                    ELSE moved
       IN /\ current' = clear_dirty(committed)
          /\ alternate' = None
          /\ term' = shown.term
          /\ cursor' = shown.cursor
          /\ out' = Append(shown.out, Command("Flush", pos(0, 0), ""))
          /\ staged_cursor' = None
    /\ op' = Operation("apply", None, <<>>, None)
    /\ steps' = steps + 1
    /\ UNCHANGED line_vars
    /\ UNCHANGED <<mode, exited, hist>>

apply == apply_nothing_staged \/ apply_staged

\* exit that restores the terminal without showing the cursor.
exit_cursor_as_left ==
    /\ steps < MaxSteps
    /\ ~exited
    /\ LET last == get_last_position(current)
           start == [term |-> term, cursor |-> cursor, out |-> <<>>]
           below == IF mode = "Relative" /\ IsSome(last)
                    THEN move_cursor_to(start, pos(0, Unwrap(last).y + 1))
                    ELSE start
           left == IF mode = "Absolute"
                   THEN [below EXCEPT
                           !.term = term_leave_alternate_screen(below.term),
                           !.out = Append(below.out,
                                          Command("LeaveAlternateScreen", pos(0, 0), ""))]
                   ELSE below
       IN /\ term' = term_disable_raw_mode(left.term)
          /\ cursor' = left.cursor
          /\ out' = Append(left.out, Command("Flush", pos(0, 0), ""))
    /\ exited' = TRUE
    /\ op' = Operation("exit", None, <<>>, None)
    /\ steps' = steps + 1
    /\ UNCHANGED line_vars
    /\ UNCHANGED <<mode, current, alternate, staged_cursor, hist>>

\* exit that restores the screen and the cursor but leaves raw mode enabled.
exit_keeps_raw_mode ==
    /\ steps < MaxSteps
    /\ ~exited
    /\ LET last == get_last_position(current)
           start == [term |-> term, cursor |-> cursor, out |-> <<>>]
           below == IF mode = "Relative" /\ IsSome(last)
                    THEN move_cursor_to(start, pos(0, Unwrap(last).y + 1))
                    ELSE start
           shown == [below EXCEPT
                       !.term = term_set_visible(below.term, TRUE),
                       !.out = Append(below.out, Command("Show", below.cursor, ""))]
           left == IF mode = "Absolute"
                   THEN [shown EXCEPT
                           !.term = term_leave_alternate_screen(shown.term),
                           !.out = Append(shown.out,
                                          Command("LeaveAlternateScreen", pos(0, 0), ""))]
                   ELSE shown
       IN /\ term' = left.term
          /\ cursor' = left.cursor
          /\ out' = Append(left.out, Command("Flush", pos(0, 0), ""))
    /\ exited' = TRUE
    /\ op' = Operation("exit", None, <<>>, None)
    /\ steps' = steps + 1
    /\ UNCHANGED line_vars
    /\ UNCHANGED <<mode, current, alternate, staged_cursor, hist>>

\* exit.  Alternate mode: Show Cursor, Leave Alternate Screen, flush, disable
\* raw mode.  Relative mode: move to column 0 of the row below the last
\* committed cell (no move without cells), Show Cursor, flush, disable raw
\* mode.  The newline printed last goes to the standard output of the
\* process, after the Device was flushed and released, and is no command to
\* the Device.
exit ==
    /\ steps < MaxSteps
    /\ ~exited
    /\ LET last == get_last_position(current)
           start == [term |-> term, cursor |-> cursor, out |-> <<>>]
           below == IF mode = "Relative" /\ IsSome(last)
                    THEN move_cursor_to(start, pos(0, Unwrap(last).y + 1))
                    ELSE start
           shown == [below EXCEPT
                       !.term = term_set_visible(below.term, TRUE),
                       !.out = Append(below.out, Command("Show", below.cursor, ""))]
           left == IF mode = "Absolute"
                   THEN [shown EXCEPT
                           !.term = term_leave_alternate_screen(shown.term),
                           !.out = Append(shown.out,
                                          Command("LeaveAlternateScreen", pos(0, 0), ""))]
                   ELSE shown
       IN /\ term' = term_disable_raw_mode(left.term)
          /\ cursor' = left.cursor
          /\ out' = Append(left.out, Command("Flush", pos(0, 0), ""))
    /\ exited' = TRUE
    /\ op' = Operation("exit", None, <<>>, None)
    /\ steps' = steps + 1
    /\ UNCHANGED line_vars
    /\ UNCHANGED <<mode, current, alternate, staged_cursor, hist>>

----------------------------------------------------------------------------
(* Specification *)

\* A freshly constructed Interface in mode `m` on terminal `t`.
Interface_new(name, m, t) ==
    /\ mode = m
    /\ exited = FALSE
    /\ current = State_new
    /\ alternate = None
    /\ cursor = pos(0, 0)
    /\ staged_cursor = None
    /\ term = t
    /\ out = <<>>
    /\ op = Operation(name, None, <<>>, None)
    /\ hist = [batch |-> <<>>, in_view |-> TRUE]
    /\ steps = 0
    /\ NoLines

\* The Interface after new_alternate on a SizeX x SizeY terminal.
Init == Interface_new("new_alternate", "Absolute", Term_new)

Next ==
    \/ \E position \in StagePositions, text \in Texts : set(position, text)
    \/ \E position \in StagePositions, text \in Texts, style \in Styles :
          set_styled(position, text, style)
    \/ \E line \in StageLines : Interface_clear_line(line)
    \/ \E from \in StagePositions : Interface_clear_rest_of_line(from)
    \/ \E from \in StagePositions : Interface_clear_rest_of_interface(from)
    \/ \E position \in StageCursors : set_cursor(position)
    \/ apply
    \/ exit

Spec == Init /\ [][Next]_vars

\* Both construction modes, on fewer staging inputs.  In relative mode the
\* cursor is found on the first or on the last row of the screen.
RelativeOrigins == {0, SizeY - 1}
ModesPositions == {pos(0, 0), pos(SizeX - 1, SizeY - 1)}
ModesTexts == {<<"A">>, <<"A", "B", "A">>}
ModesLines == {0}
ModesCursors == {None, Some(pos(0, 0)), Some(pos(SizeX - 1, 0))}

InitModes ==
    \/ Interface_new("new_alternate", "Absolute", Term_new)
    \/ \E row \in RelativeOrigins :
          Interface_new("new_relative", "Relative", Term_relative(row))

NextModes ==
    \/ \E position \in ModesPositions, text \in ModesTexts : set(position, text)
    \/ \E line \in ModesLines : Interface_clear_line(line)
    \/ \E position \in ModesCursors : set_cursor(position)
    \/ apply
    \/ exit

SpecModes == InitModes /\ [][NextModes]_vars

----------------------------------------------------------------------------
(* Construction step by step, and Device errors *)

\* The terminal before construction, the cursor at column 0 of `row`:
\* cooked mode, primary screen, cursor visible.
Term_before(row) ==
    [screen |-> [p \in Viewport |-> Empty], cur |-> pos(0, row), visible |-> TRUE,
     origin |-> row, alternate_screen |-> FALSE, raw_mode |-> FALSE]

\* The steps of new_alternate and of new_relative, in order.
construction_steps(m) ==
    IF m = "Absolute"
    THEN <<"size", "raw", "enter", "clear", "hide", "move", "flush">>
    ELSE <<"size", "raw">>

\* The effect of one successful construction step on the terminal.
construction_step(t, step) ==
    CASE step = "raw" -> [t EXCEPT !.raw_mode = TRUE]
      [] step = "enter" -> [t EXCEPT !.alternate_screen = TRUE, !.origin = 0]
      [] step = "clear" -> [t EXCEPT !.screen = [p \in Viewport |-> Empty]]
      [] step = "hide" -> term_set_visible(t, FALSE)
      [] step = "move" -> term_move_to(t, pos(0, 0))
      [] OTHER -> t

\* The terminal after the first `count` steps of `sequence`.
RECURSIVE construct(_, _, _)
construct(t, sequence, count) ==
    IF count = 0 THEN t
    ELSE construction_step(construct(t, sequence, count - 1), sequence[count])

\* A failed constructor that returns the error and releases nothing.
unwind_nothing(t) == t

\* A failed constructor leaves the alternate screen and disables raw mode.
unwind(t) == term_disable_raw_mode(term_leave_alternate_screen(t))

\* new_alternate / new_relative whose step `failing` fails (0: none does).
\* The steps before it have acted on the terminal; on failure the constructor
\* unwinds and returns the error, and no Interface exists.
Interface_construct(name, m, failing) ==
    LET sequence == construction_steps(m) IN
    /\ mode = "Unconstructed"
    /\ failing \in 0..Len(sequence)
    /\ IF failing = 0
       THEN /\ mode' = m
            /\ term' = construct(term, sequence, Len(sequence))
            /\ op' = Operation(name, None, <<>>, None)
       ELSE /\ mode' = mode
            /\ term' = unwind(construct(term, sequence, failing - 1))
            /\ op' = [Operation(name, None, <<sequence[failing]>>, None)
                        EXCEPT !.result = "Err"]
    /\ out' = <<>>
    /\ UNCHANGED <<exited, current, alternate, cursor, staged_cursor, hist, steps>>
    /\ UNCHANGED line_vars

new_alternate(failing) == Interface_construct("new_alternate", "Absolute", failing)

new_relative(failing) == Interface_construct("new_relative", "Relative", failing)

\* Step 6 of apply: the staged cursor placed and shown.
place_staged_cursor(printed) ==
    IF IsSome(staged_cursor)
    THEN LET moved == move_cursor_to(printed, Unwrap(staged_cursor)) IN
         [moved EXCEPT
            !.term = term_set_visible(moved.term, TRUE),
            !.out = Append(moved.out, Command("Show", Unwrap(staged_cursor), ""))]
    ELSE printed

\* The writes of an apply at which the Device can fail: Hide Cursor, the
\* motion to dirty cell j, the print of dirty cell j, the flush.
fail_points(dirty_cells) ==
    {<<"Hide", 0>>, <<"Flush", 0>>}
        \cup {<<write, j>> : write \in {"Move", "Print"}, j \in 1..Len(dirty_cells)}

\* What apply has done when the write `failing` fails.
emitted_before(failing, dirty_cells) ==
    LET start == [term |-> term, cursor |-> cursor, out |-> <<>>]
        hidden == [term |-> term_set_visible(term, FALSE),
                   cursor |-> cursor,
                   out |-> <<Command("Hide", pos(0, 0), "")>>]
        before == emit_cells(SubSeq(dirty_cells, 1, failing[2] - 1), 1, hidden)
    IN CASE failing[1] = "Hide" -> start
         [] failing[1] = "Flush" ->
                place_staged_cursor(emit_cells(dirty_cells, 1, hidden))
         [] failing[1] = "Move" -> before
         [] failing[1] = "Print" ->
                IF before.cursor /= dirty_cells[failing[2]][1]
                THEN move_cursor_to(before, dirty_cells[failing[2]][1])
                ELSE before

\* apply that leaves the staged state in place when a write fails.
apply_device_error_keeps_alternate(failing) ==
    /\ steps < MaxSteps
    /\ ~exited
    /\ alternate /= None
    /\ LET dirty_cells == dirty_iter(Unwrap(alternate))
           reached == emitted_before(failing, dirty_cells)
       IN /\ failing \in fail_points(dirty_cells)
          /\ failing[1] = "Move" =>
                emitted_before(<<"Print", failing[2]>>, dirty_cells).out /= reached.out
          /\ term' = reached.term
          /\ cursor' = reached.cursor
          /\ out' = reached.out
    /\ op' = [Operation("apply", None, <<>>, None) EXCEPT !.result = "Err"]
    /\ steps' = steps + 1
    /\ UNCHANGED line_vars
    /\ UNCHANGED <<mode, exited, current, alternate, staged_cursor, hist>>

\* apply whose write `failing` fails: the staged state was taken and swapped
\* into current before the first write, the error returns from the failed
\* write, and clear_dirty is not reached.
apply_device_error(failing) ==
    /\ steps < MaxSteps
    /\ ~exited
    /\ alternate /= None
    /\ LET committed == Unwrap(alternate)
           dirty_cells == dirty_iter(committed)
           reached == emitted_before(failing, dirty_cells)
       IN /\ failing \in fail_points(dirty_cells)
          /\ failing[1] = "Move" =>
                emitted_before(<<"Print", failing[2]>>, dirty_cells).out /= reached.out
          /\ current' = committed
          /\ alternate' = None
          /\ term' = reached.term
          /\ cursor' = reached.cursor
          /\ out' = reached.out
    /\ op' = [Operation("apply", None, <<>>, None) EXCEPT !.result = "Err"]
    /\ steps' = steps + 1
    /\ UNCHANGED line_vars
    /\ UNCHANGED <<mode, exited, staged_cursor, hist>>

\* The life of an Interface from its construction to exit, with failing
\* constructors and failing applies.
FailWrites == {"Hide", "Move", "Print", "Flush"}

Constructed == mode \in {"Absolute", "Relative"}

InitLife ==
    /\ mode = "Unconstructed"
    /\ exited = FALSE
    /\ current = State_new
    /\ alternate = None
    /\ cursor = pos(0, 0)
    /\ staged_cursor = None
    /\ term \in {Term_before(row) : row \in RelativeOrigins}
    /\ out = <<>>
    /\ op = Operation("start", None, <<>>, None)
    /\ hist = [batch |-> <<>>, in_view |-> TRUE]
    /\ steps = 0
    /\ NoLines

NextLife ==
    \/ \E failing \in 0..Len(construction_steps("Absolute")) : new_alternate(failing)
    \/ \E failing \in 0..Len(construction_steps("Relative")) : new_relative(failing)
    \/ Constructed /\ \E position \in ModesPositions, text \in ModesTexts :
          set(position, text)
    \/ Constructed /\ \E line \in ModesLines : Interface_clear_line(line)
    \/ Constructed /\ \E position \in ModesCursors : set_cursor(position)
    \/ Constructed /\ apply
    \/ Constructed /\ \E write \in FailWrites, j \in 0..Cardinality(Staged.dirty) :
          apply_device_error(<<write, j>>)
    \/ Constructed /\ exit

SpecLife == InitLife /\ [][NextLife]_vars

----------------------------------------------------------------------------
(* Position and State exercised directly, as their unit tests do *)

\* Coordinates up to MaxCoordinate and the two greatest u16.
MaxCoordinate == 2
Coordinates == (0..MaxCoordinate) \cup {U16_MAX - 1, U16_MAX}
Positions == {pos(x, y) : x \in Coordinates, y \in Coordinates}
Diffs == 0..MaxCoordinate

\* No Interface takes part: everything but the call and its result stays.
NoInterface ==
    /\ mode = "Unconstructed"
    /\ exited = FALSE
    /\ current = State_new
    /\ alternate = None
    /\ cursor = pos(0, 0)
    /\ staged_cursor = None
    /\ term = Term_before(0)
    /\ out = <<>>
    /\ hist = [batch |-> <<>>, in_view |-> TRUE]
    /\ steps = 0
    /\ NoLines

\* a.cmp(&b) and a.partial_cmp(&b)
Position_cmp(a, b) ==
    /\ op' = [name |-> "cmp", a |-> a, b |-> b,
              result |-> cmp(a, b), partial |-> partial_cmp(a, b)]
    /\ UNCHANGED <<mode, exited, current, alternate, cursor, staged_cursor, term,
                   out, hist, steps>>
    /\ UNCHANGED line_vars

\* p.translate(diff_x, diff_y): the translated position, or a panic in a
\* build with overflow checks when a sum overflows.
Position_translate(p, diff_x, diff_y) ==
    /\ \/ op' = [name |-> "translate", a |-> p, b |-> pos(diff_x, diff_y),
                 result |-> "Ok", value |-> translate(p, diff_x, diff_y)]
       \/ /\ translate_overflows(p, diff_x, diff_y)
          /\ op' = [name |-> "translate", a |-> p, b |-> pos(diff_x, diff_y),
                    result |-> "panic", value |-> p]
    /\ UNCHANGED <<mode, exited, current, alternate, cursor, staged_cursor, term,
                   out, hist, steps>>
    /\ UNCHANGED line_vars

InitPosition ==
    /\ NoInterface
    /\ op = [name |-> "start", a |-> pos(0, 0), b |-> pos(0, 0),
             result |-> "Ok", value |-> pos(0, 0)]

NextPosition ==
    \/ \E a \in Positions, b \in Positions : Position_cmp(a, b)
    \/ \E p \in Positions, diff_x \in Diffs, diff_y \in Diffs :
          Position_translate(p, diff_x, diff_y)

SpecPosition == InitPosition /\ [][NextPosition]_vars

\* A State used directly: `current` is the State, `op` the last call on it.
StatePositions == {pos(0, 0), pos(1, 0), pos(0, 1)}
StateGraphemes == {"A", ""}
StateLines == {0, 1}

State_call(name, position, text, style, after) ==
    /\ current' = after
    /\ op' = Operation(name, Some(position), text, style)
    /\ UNCHANGED <<mode, exited, alternate, cursor, staged_cursor, term, out,
                   hist, steps>>
    /\ UNCHANGED line_vars

State_set_text(position, grapheme) ==
    State_call("set_text", position, <<grapheme>>, None,
               set_text(current, position, grapheme))

State_set_styled_text(position, grapheme, style) ==
    State_call("set_styled_text", position, <<grapheme>>, Some(style),
               set_styled_text(current, position, grapheme, style))

State_clear_line(line) ==
    State_call("clear_line", pos(0, line), <<>>, None, clear_line(current, line))

State_clear_rest_of_line(from) ==
    State_call("clear_rest_of_line", from, <<>>, None,
               clear_rest_of_line(current, from))

State_clear_rest_of_interface(from) ==
    State_call("clear_rest_of_interface", from, <<>>, None,
               clear_rest_of_interface(current, from))

State_clear_dirty ==
    State_call("clear_dirty", pos(0, 0), <<>>, None, clear_dirty(current))

InitState ==
    /\ NoInterface
    /\ op = Operation("new", None, <<>>, None)

NextState ==
    \/ \E position \in StatePositions, grapheme \in StateGraphemes :
          State_set_text(position, grapheme)
    \/ \E position \in StatePositions, style \in Styles :
          State_set_styled_text(position, "A", style)
    \/ \E line \in StateLines : State_clear_line(line)
    \/ \E from \in StatePositions : State_clear_rest_of_line(from)
    \/ \E from \in StatePositions : State_clear_rest_of_interface(from)
    \/ State_clear_dirty

SpecState == InitState /\ [][NextState]_vars

\* Terminal::move_cursor in relative cursor mode, called directly.  The
\* targets lie on the screen or at a column greater than the greatest i16.
MotionColumns == {0, SizeX - 1, I16_MAX + 1, I16_MAX + 2}
MotionRows == {0, SizeY - 1}

Terminal_move_cursor(to) ==
    /\ steps < MaxSteps
    /\ \/ LET moved == move_cursor([term |-> term, cursor |-> cursor, out |-> <<>>], to)
          IN /\ term' = moved.term
             /\ cursor' = moved.cursor
             /\ out' = moved.out
             /\ op' = Operation("move_cursor", Some(to), <<>>, None)
       \/ /\ to /= cursor
          /\ move_cursor_overflows(cursor, to)
          /\ op' = [Operation("move_cursor", Some(to), <<>>, None)
                      EXCEPT !.result = "panic"]
          /\ out' = <<>>
          /\ UNCHANGED <<term, cursor>>
    /\ steps' = steps + 1
    /\ UNCHANGED line_vars
    /\ UNCHANGED <<mode, exited, current, alternate, staged_cursor, hist>>

InitMotion ==
    \E row \in RelativeOrigins :
        Interface_new("new_relative", "Relative", Term_relative(row))

NextMotion ==
    \E x \in MotionColumns, y \in MotionRows : Terminal_move_cursor(pos(x, y))

SpecMotion == InitMotion /\ [][NextMotion]_vars

----------------------------------------------------------------------------
(* Terminal: the chunks of a text that differ from the text rendered before *)

\* Texts are sequences of graphemes, as text.graphemes(true) yields them.
MaxTextLength == 3
Alphabet == {"A", "B"}
ChunkTexts == UNION {[1..n -> Alphabet] : n \in 0..MaxTextLength}

\* The loop of get_chunks from grapheme `index` on: the slices closed so far
\* and the start of the slice that is still open.
RECURSIVE chunk_loop(_, _, _, _, _)
chunk_loop(graphemes, previous_graphemes, index, slice_start, slices) ==
    IF index >= Len(graphemes)
    THEN [index |-> index, slice_start |-> slice_start, slices |-> slices]
    ELSE LET grapheme == Some(graphemes[index + 1])
             previous == IF index < Len(previous_graphemes)
                         THEN Some(previous_graphemes[index + 1])
                         ELSE None
         IN IF grapheme /= previous
            THEN chunk_loop(graphemes, previous_graphemes, index + 1,
                            IF slice_start = None THEN Some(index) ELSE slice_start,
                            slices)
            ELSE IF IsSome(slice_start)
            THEN chunk_loop(graphemes, previous_graphemes, index + 1, None,
                            Append(slices, <<Unwrap(slice_start), index>>))
            ELSE chunk_loop(graphemes, previous_graphemes, index + 1, None, slices)

\* get_chunks that forgets the slice still open at the end of the text.
get_chunks_open_slice_dropped(text, previous_text) ==
    chunk_loop(text, previous_text, 0, None, <<>>).slices

\* get_chunks(text, previous_text): the (start, end) slices to render.
get_chunks(text, previous_text) ==
    LET end == chunk_loop(text, previous_text, 0, None, <<>>) IN
    IF IsSome(end.slice_start)
    THEN Append(end.slices, <<Unwrap(end.slice_start), end.index>>)
    ELSE end.slices

\* get_chunks called directly: `op` is the call and what it returned.
Terminal_get_chunks(text, previous_text) ==
    /\ op' = [name |-> "get_chunks", text |-> text, previous_text |-> previous_text,
              result |-> "Ok", value |-> get_chunks(text, previous_text)]
    /\ UNCHANGED <<mode, exited, current, alternate, cursor, staged_cursor, term,
                   out, hist, steps>>
    /\ UNCHANGED line_vars

InitChunks ==
    /\ NoInterface
    /\ op = [name |-> "start", text |-> <<>>, previous_text |-> <<>>,
             result |-> "Ok", value |-> <<>>]

NextChunks ==
    \E text \in ChunkTexts, previous_text \in ChunkTexts :
        Terminal_get_chunks(text, previous_text)

SpecChunks == InitChunks /\ [][NextChunks]_vars

----------------------------------------------------------------------------
(* The Interface of lines and segments: src/src/interface.rs, line.rs,     *)
(* segment.rs, layout.rs.  A segment has a text only (colors and styles    *)
(* are staged the same way and are left at their defaults).  Identifiers   *)
(* are the numbers the counters ID_VALUE hand out.                         *)

\* Result<T>: the object after the call, Ok or the error, and the value.
Ok(self, value) == [self |-> self, result |-> "Ok", value |-> value]
Err(self, error) == [self |-> self, result |-> error, value |-> None]

\* HashMap::insert, HashMap::remove, Vec::insert, Vec::remove, position()
HashMap_insert(map, key, value) ==
    [k \in (DOMAIN map) \cup {key} |-> IF k = key THEN value ELSE map[k]]
HashMap_remove(map, key) == [k \in (DOMAIN map) \ {key} |-> map[k]]
Vec_insert(vec, index, value) ==
    SubSeq(vec, 1, index) \o <<value>> \o SubSeq(vec, index + 1, Len(vec))
Vec_remove(vec, index) ==
    SubSeq(vec, 1, index) \o SubSeq(vec, index + 2, Len(vec))
Vec_contains(vec, value) == \E i \in 1..Len(vec) : vec[i] = value
Vec_position(vec, value) ==
    IF Vec_contains(vec, value)
    THEN Some((CHOOSE i \in 1..Len(vec) :
                  vec[i] = value /\ \A j \in 1..(i - 1) : vec[j] /= value) - 1)
    ELSE None
\* vec.get(index): the element at the 0-based index, if there is one.
Vec_get(vec, index) == IF index < Len(vec) THEN Some(vec[index + 1]) ELSE None

\* ---- Segment (segment.rs)

\* Segment::new: SegmentState::default has no text and no layout.
Segment_new(identifier) ==
    [identifier |-> identifier, current |-> [text |-> None, layout |-> None],
     alternate |-> None]

Segment_get_alternate_mut(segment) ==
    IF segment.alternate = None
    THEN [segment EXCEPT !.alternate = Some(segment.current)]
    ELSE segment

Segment_set_text(segment, text) ==
    LET staged == Segment_get_alternate_mut(segment) IN
    [staged EXCEPT !.alternate = Some([Unwrap(staged.alternate) EXCEPT !.text = Some(text)])]

Segment_has_changes(segment) == IsSome(segment.alternate)

\* swap_alternate that leaves the staged state in place.
Segment_swap_alternate_kept(segment) ==
    [segment EXCEPT !.current = Unwrap(segment.alternate)]

Segment_swap_alternate(segment) ==
    [segment EXCEPT !.current = Unwrap(segment.alternate), !.alternate = None]

\* ---- Line (line.rs)

\* Line::new: LineState::default has no segments and no layout.
Line_new(identifier) ==
    [identifier |-> identifier, current |-> [segments |-> <<>>, layout |-> None],
     alternate |-> None, segments |-> <<>>]

segment_ids(line) ==
    IF IsSome(line.alternate) THEN Unwrap(line.alternate).segments
    ELSE line.current.segments

get_segment_index(line, id) == Vec_position(segment_ids(line), id)

Line_get_alternate_mut(line) ==
    IF line.alternate = None
    THEN [line EXCEPT !.alternate = Some(line.current)]
    ELSE line

\* alternate.segments = ordering, on a line that has an alternate.
Line_stage(line, ordering) ==
    [line EXCEPT !.alternate = Some([Unwrap(line.alternate) EXCEPT !.segments = ordering])]

create_segment(line, segment_id) ==
    [line EXCEPT !.segments = HashMap_insert(line.segments, segment_id,
                                             Segment_new(segment_id))]

add_segment(line, segment_id) ==
    LET staged == Line_get_alternate_mut(create_segment(line, segment_id)) IN
    Line_stage(staged, Append(Unwrap(staged.alternate).segments, segment_id))

remove_segment(line, id) ==
    LET index == get_segment_index(line, id) IN
    IF index = None THEN Err(line, "SegmentIdInvalid")
    ELSE LET staged == Line_get_alternate_mut(line) IN
         Ok(Line_stage(staged, Vec_remove(Unwrap(staged.alternate).segments,
                                          Unwrap(index))),
            None)

\* remove_segment_at: the bound test is `index > len - 1` on usize.  With no
\* segments `len - 1` panics in a build with overflow checks and is the
\* greatest usize in one without, where Vec::remove then panics.
remove_segment_at(line, index) ==
    LET staged == Line_get_alternate_mut(line)
        ordering == Unwrap(staged.alternate).segments
    IN IF Len(ordering) = 0 THEN Err(staged, "panic")
       ELSE IF index > Len(ordering) - 1 THEN Err(staged, "SegmentOutOfBounds")
       ELSE Ok(Line_stage(staged, Vec_remove(ordering, index)),
               Some(ordering[index + 1]))

Line_has_changes(line) ==
    \/ IsSome(line.alternate)
    \/ \E i \in 1..Len(line.current.segments) :
          Segment_has_changes(line.segments[line.current.segments[i]])

take_segment(line, segment_id) ==
    IF segment_id \notin DOMAIN line.segments THEN Err(line, "SegmentIdInvalid")
    ELSE LET clone == line.segments[segment_id]
             removed == remove_segment(line, segment_id)
         IN IF removed.result /= "Ok" THEN removed
            ELSE Ok(removed.self, Some(clone))

append_given_segment(line, segment) ==
    LET stored == [line EXCEPT !.segments =
                      HashMap_insert(line.segments, segment.identifier, segment)]
        staged == Line_get_alternate_mut(stored)
    IN Line_stage(staged, Append(Unwrap(staged.alternate).segments,
                                 segment.identifier))

Line_swap_alternate(line) ==
    [line EXCEPT !.current = Unwrap(line.alternate), !.alternate = None]

\* prune_segments(&previous.segments), after the swap
prune_segments(line, previous_segments) ==
    [line EXCEPT !.segments =
        [id \in {k \in DOMAIN line.segments :
                    ~(Vec_contains(previous_segments, k)
                      /\ ~Vec_contains(line.current.segments, k))}
           |-> line.segments[id]]]

\* ---- Interface: staging (interface.rs)

line_ids(self) ==
    IF IsSome(self.alternate) THEN Unwrap(self.alternate).lines
    ELSE self.current.lines

get_line_index(self, id) == Vec_position(line_ids(self), id)

\* get_alternate and get_alternate_mut create the alternate alike.
Interface_get_alternate_mut(self) ==
    IF self.alternate = None
    THEN [self EXCEPT !.alternate = Some(self.current)]
    ELSE self

\* alternate.lines = ordering, on an Interface that has an alternate.
Interface_stage(self, ordering) ==
    [self EXCEPT !.alternate = Some([Unwrap(self.alternate) EXCEPT !.lines = ordering])]

Interface_set_cursor(self, position) ==
    LET staged == Interface_get_alternate_mut(self) IN
    [staged EXCEPT !.alternate = Some([Unwrap(staged.alternate) EXCEPT !.cursor = position])]

hide_cursor(self) == Interface_set_cursor(self, None)

set_optimization(self, allow) == [self EXCEPT !.allow_optimization = allow]

create_line(self, line_id) ==
    [self EXCEPT !.lines = HashMap_insert(self.lines, line_id, Line_new(line_id))]

add_line(self, line_id) ==
    LET staged == Interface_get_alternate_mut(create_line(self, line_id)) IN
    Ok(Interface_stage(staged, Append(Unwrap(staged.alternate).lines, line_id)),
       Some(line_id))

insert_line(self, index, line_id) ==
    LET tested == Interface_get_alternate_mut(self) IN
    IF index > Len(Unwrap(tested.alternate).lines) THEN Err(tested, "LineOutOfBounds")
    ELSE LET staged == create_line(tested, line_id) IN
         Ok(Interface_stage(staged, Vec_insert(Unwrap(staged.alternate).lines,
                                               index, line_id)),
            Some(line_id))

remove_line(self, id) ==
    LET index == get_line_index(self, id) IN
    IF index = None THEN Err(self, "LineIdInvalid")
    ELSE LET staged == Interface_get_alternate_mut(self) IN
         Ok(Interface_stage(staged, Vec_remove(Unwrap(staged.alternate).lines,
                                               Unwrap(index))),
            None)

remove_line_at(self, index) ==
    LET staged == Interface_get_alternate_mut(self)
        ordering == Unwrap(staged.alternate).lines
    IN IF index >= Len(ordering) THEN Err(staged, "LineOutOfBounds")
       ELSE Ok(Interface_stage(staged, Vec_remove(ordering, index)),
               Some(ordering[index + 1]))

move_segment(self, segment_id, from_line_id, to_line_id) ==
    IF from_line_id \notin DOMAIN self.lines THEN Err(self, "LineIdInvalid")
    ELSE LET taken == take_segment(self.lines[from_line_id], segment_id)
             from == [self EXCEPT !.lines[from_line_id] = taken.self]
         IN IF taken.result /= "Ok" THEN Err(from, taken.result)
            ELSE IF to_line_id \notin DOMAIN from.lines THEN Err(from, "LineIdInvalid")
            ELSE Ok([from EXCEPT !.lines[to_line_id] =
                        append_given_segment(from.lines[to_line_id],
                                             Unwrap(taken.value))],
                    None)

Interface_has_changes(self) ==
    \/ IsSome(self.alternate)
    \/ \E i \in 1..Len(self.current.lines) :
          Line_has_changes(self.lines[self.current.lines[i]])

Interface_swap_alternate(self) ==
    [self EXCEPT !.current = Unwrap(self.alternate), !.alternate = None]

\* prune_lines that drops every line of the previous ordering.
prune_lines_all_previous(self, previous_lines) ==
    [self EXCEPT !.lines =
        [id \in {k \in DOMAIN self.lines : ~Vec_contains(previous_lines, k)}
           |-> self.lines[id]]]

\* prune_lines(&previous.lines), after the swap
prune_lines(self, previous_lines) ==
    [self EXCEPT !.lines =
        [id \in {k \in DOMAIN self.lines :
                    ~(Vec_contains(previous_lines, k)
                      /\ ~Vec_contains(self.current.lines, k))}
           |-> self.lines[id]]]

\* ---- Layouts (layout.rs).  Every grapheme is one column wide, so a part
\* keeps no widths; the texts drawn are shorter than a row, so a segment that
\* is rendered has one part.

PartLayout_new(position, start, end) ==
    [position |-> position, start |-> start, end |-> end]

\* PartLayout::get_position and end_position
get_position(part, index) ==
    IF index >= part.start /\ index <= part.end
    THEN Some(pos(part.position.x + (index - part.start), part.position.y))
    ELSE None

SegmentLayout_new(segment_id, parts) == [segment_id |-> Some(segment_id), parts |-> parts]
SegmentLayout_default == [segment_id |-> None, parts |-> <<>>]

SegmentLayout_wrapped_line_count(layout) ==
    IF layout.parts = <<>> THEN 0 ELSE Len(layout.parts) - 1

SegmentLayout_end_position(layout) ==
    IF layout.parts = <<>> THEN None
    ELSE get_position(layout.parts[Len(layout.parts)],
                      layout.parts[Len(layout.parts)].end)

SegmentLayout_get_absolute_position(layout, grapheme_index) ==
    LET found == {i \in 1..Len(layout.parts) :
                    \/ layout.parts[i].end > grapheme_index
                    \/ (layout.parts[i].end = grapheme_index /\ i = Len(layout.parts))}
    IN IF found = {} THEN None
       ELSE get_position(layout.parts[CHOOSE i \in found : \A j \in found : i <= j],
                         grapheme_index)

LineLayout_new(line_id, segments) == [line_id |-> Some(line_id), segments |-> segments]

RECURSIVE sum_wrapped(_, _)
sum_wrapped(layouts, n) ==
    IF n = 0 THEN 0
    ELSE sum_wrapped(layouts, n - 1) + SegmentLayout_wrapped_line_count(layouts[n])

LineLayout_wrapped_line_count(layout) ==
    IF layout.segments = <<>> THEN 0
    ELSE sum_wrapped(layout.segments, Len(layout.segments)) + 1

LineLayout_end_position(layout) ==
    LET filled == {i \in 1..Len(layout.segments) : layout.segments[i].parts /= <<>>} IN
    IF filled = {} THEN None
    ELSE SegmentLayout_end_position(
             layout.segments[CHOOSE i \in filled : \A j \in filled : j <= i])

InterfaceLayout_new(line_layouts, terminal_size) ==
    [terminal_size |-> terminal_size, lines |-> line_layouts]

RECURSIVE rendered_line_count_to(_, _)
rendered_line_count_to(layout, n) ==
    IF n = 0 THEN 0
    ELSE rendered_line_count_to(layout, n - 1)
           + LineLayout_wrapped_line_count(layout.lines[n])

rendered_line_count(layout) == rendered_line_count_to(layout, Len(layout.lines))

\* The segment layouts of an interface layout in the order the search of
\* get_absolute_position visits them: last line first, last segment first,
\* each with whether it is the segment looked for.
RECURSIVE visited(_, _, _, _)
visited(layout, relative, line_index, segment_index) ==
    IF line_index = 0 THEN <<>>
    ELSE IF segment_index = 0
    THEN visited(layout, relative, line_index - 1,
                 IF line_index = 1 THEN 0
                 ELSE Len(layout.lines[line_index - 1].segments))
    ELSE LET line_layout == layout.lines[line_index]
             segment_layout == line_layout.segments[segment_index]
         IN <<[layout |-> segment_layout,
               matching |-> /\ line_layout.line_id = Some(relative.line_id)
                            /\ segment_layout.segment_id = Some(relative.segment_id)]>>
            \o visited(layout, relative, line_index, segment_index - 1)

\* InterfaceLayout::get_absolute_position: from the segment looked for, the
\* first segment in the visiting order that has parts decides.
get_absolute_position(layout, relative) ==
    LET order == IF layout.lines = <<>> THEN <<>>
                 ELSE visited(layout, relative, Len(layout.lines),
                              Len(layout.lines[Len(layout.lines)].segments))
        matched(i) == \E j \in 1..i : order[j].matching
        deciding == {i \in 1..Len(order) : matched(i) /\ order[i].layout.parts /= <<>>}
    IN IF deciding = {} THEN None
       ELSE LET first == CHOOSE i \in deciding : \A j \in deciding : i <= j IN
            IF order[first].matching
            THEN SegmentLayout_get_absolute_position(order[first].layout,
                                                     relative.position)
            ELSE IF relative.position = 0
            THEN SegmentLayout_end_position(order[first].layout)
            ELSE None

\* ---- Terminal (terminal.rs), as far as the Interface of lines sees it: its
\* size, its virtual cursor and what it writes to the Device.  The write
\* numbered `failing` of an operation fails (0: none does).
\*
\* A call that renders is a chain of steps on a frame: the object worked on
\* (`self`), the terminal, the result so far and the value returned.  As with
\* the `?` of the code, a step does nothing once the result is not Ok.

Ret(self, terminal, result, value) ==
    [self |-> self, terminal |-> terminal, result |-> result, value |-> value]

Terminal_of(terminal_size, failing) ==
    [size |-> terminal_size, cursor_position |-> pos(0, 0), written |-> <<>>,
     failing |-> failing]

\* `return Ok(value)` where the chain stands
With_value(f, value) == IF f.result /= "Ok" THEN f ELSE [f EXCEPT !.value = value]

\* One write to the Device: the command is written, or it is the I/O error.
Device_write(f, command) ==
    IF f.result /= "Ok" THEN f
    ELSE IF Len(f.terminal.written) + 1 = f.terminal.failing
    THEN [f EXCEPT !.result = "IO"]
    ELSE [f EXCEPT !.terminal.written = Append(@, command)]

Terminal_hide_cursor(f) == Device_write(f, "Hide")
Terminal_show_cursor(f) == Device_write(f, "Show")
Terminal_clear_line(f) == Device_write(f, "ClearLine")
Terminal_clear_rest_of_line(f) == Device_write(f, "ClearUntilNewline")
Terminal_flush(f) == Device_write(f, "Flush")

\* self.cursor_position = to
Cursor_at(f, to) ==
    IF f.result /= "Ok" THEN f ELSE [f EXCEPT !.terminal.cursor_position = to]

\* Terminal::move_cursor: nothing when the cursor is there already.
Terminal_goto(f, to) ==
    IF f.result /= "Ok" \/ to = f.terminal.cursor_position THEN f
    ELSE Cursor_at(Device_write(f, "Move"), to)

\* Terminal::reset in the full render mode: clear, then go to the origin.
Terminal_reset(f) == Terminal_goto(Device_write(f, "Clear"), pos(0, 0))

\* Terminal::render_segment(origin, text, previous text): the parts of the
\* segment.  An empty text is one empty part; a text with a newline is an
\* error; a text equal to the previous one is not written again, another is
\* written from its first chunk on.
render_segment(f, origin, text, previous_text) ==
    IF f.result /= "Ok" THEN f
    ELSE IF Len(text) = 0 THEN With_value(f, <<PartLayout_new(origin, 0, 0)>>)
    ELSE IF \E i \in 1..Len(text) : text[i] = "\n"
    THEN [f EXCEPT !.result = "MidSegmentNewlineInvalid"]
    ELSE LET chunks == IF IsSome(previous_text)
                       THEN get_chunks(text, Unwrap(previous_text))
                       ELSE <<<<0, Len(text)>>>>
         IN IF chunks = <<>>
            THEN With_value(f, <<PartLayout_new(origin, 0, Len(text))>>)
            ELSE With_value(
                     Cursor_at(Device_write(Terminal_goto(f, pos(origin.x + chunks[1][1],
                                                                 origin.y)),
                                            "Text"),
                               pos(origin.x + Len(text), origin.y)),
                     <<PartLayout_new(origin, 0, Len(text))>>)

\* ---- Segment::update and Segment::render (segment.rs)

\* self.current.layout = the parts rendered; the segment's layout is returned.
Segment_rendered(f) ==
    IF f.result /= "Ok" THEN f
    ELSE [f EXCEPT !.self.current.layout = Some(f.value),
                   !.value = SegmentLayout_new(f.self.identifier, f.value)]

Segment_update(f, location, force_render) ==
    LET segment == f.self
        swapped == IF IsSome(segment.alternate) THEN Segment_swap_alternate(segment)
                   ELSE segment
        previous_state == IF IsSome(segment.alternate) /\ ~force_render
                          THEN Some(segment.current) ELSE None
        previous_text == IF IsSome(previous_state)
                            /\ IsSome(Unwrap(previous_state).text)
                            /\ IsSome(Unwrap(previous_state).layout)
                         THEN Unwrap(previous_state).text ELSE None
    IN IF f.result /= "Ok" THEN f
       ELSE IF swapped.current.text = None
       THEN [f EXCEPT !.self = [swapped EXCEPT !.current.layout = Some(<<>>)],
                      !.value = SegmentLayout_default]
       ELSE Segment_rendered(render_segment([f EXCEPT !.self = swapped], location,
                                            Unwrap(swapped.current.text),
                                            previous_text))

\* ---- Line::render and Line::update (line.rs)

\* The variables of a render loop: where the next item goes, whether it is
\* rendered in full, and the layouts of the items rendered.
Loop(f, at, force_render) ==
    [self |-> f.self, terminal |-> f.terminal, result |-> f.result,
     value |-> f.value, at |-> at, force_render |-> force_render, layouts |-> <<>>]

\* The rest of one pass of the loop of Line::render, the segment updated.
Line_rendered_segment(f, segment_id, previous_layout, forced, updated) ==
    IF updated.result /= "Ok"
    THEN [f EXCEPT !.self.segments[segment_id] = updated.self,
                   !.terminal = updated.terminal,
                   !.result = updated.result]
    ELSE [f EXCEPT
            !.self.segments[segment_id] = updated.self,
            !.terminal = updated.terminal,
            !.at = IF updated.value.parts /= <<>>
                   THEN Unwrap(SegmentLayout_end_position(updated.value))
                   ELSE @,
            !.force_render = \/ forced
                             \/ SegmentLayout_end_position(Unwrap(previous_layout))
                                  /= SegmentLayout_end_position(updated.value),
            !.layouts = Append(@, updated.value)]

\* One pass of the loop of Line::render: the segment at `index` (0-based).
Line_render_segment(f, index, previous_segments) ==
    LET line == f.self
        segment_id == line.current.segments[index + 1]
        kept == Vec_get(previous_segments, index) = Some(segment_id)
        previous_layout == IF kept
                           THEN Some(Unwrap(line.current.layout).segments[index + 1])
                           ELSE None
        forced == f.force_render \/ ~kept
    IN IF kept /\ (line.current.layout = None
                   \/ index >= Len(Unwrap(line.current.layout).segments))
       THEN [f EXCEPT !.result = "panic"]
       ELSE IF segment_id \notin DOMAIN line.segments
       THEN [f EXCEPT !.result = "panic"]
       ELSE Line_rendered_segment(
                f, segment_id, previous_layout, forced,
                IF ~forced /\ ~Segment_has_changes(line.segments[segment_id])
                THEN Ret(line.segments[segment_id], f.terminal, "Ok",
                         Unwrap(previous_layout))
                ELSE Segment_update(Ret(line.segments[segment_id], f.terminal, "Ok", None),
                                    f.at, forced))

RECURSIVE Line_render_from(_, _, _)
Line_render_from(f, index, previous_segments) ==
    IF f.result /= "Ok" \/ index >= Len(f.self.current.segments) THEN f
    ELSE Line_render_from(Line_render_segment(f, index, previous_segments),
                          index + 1, previous_segments)

Line_render(f, location, force_render, previous_segments) ==
    Line_render_from(Loop(Terminal_goto(f, location), location, force_render), 0,
                     previous_segments)

\* self.current.layout = new_layout, which is returned.
Line_layout_kept(f, new_layout) ==
    IF f.result /= "Ok" THEN f
    ELSE [f EXCEPT !.self.current.layout = Some(new_layout), !.value = new_layout]

\* Line::update once the segments are rendered: clear what is left of a
\* shorter line, keep the layout.
Line_update_end(f, previous_end, force_render) ==
    LET new_layout == LineLayout_new(f.self.identifier, f.layouts)
        new_end == LineLayout_end_position(new_layout)
        line_is_shorter ==
            IF IsSome(previous_end) /\ IsSome(new_end)
            THEN Unwrap(new_end).y = Unwrap(previous_end).y
                 /\ Unwrap(new_end).x < Unwrap(previous_end).x
            ELSE IsSome(previous_end)
    IN IF f.result /= "Ok" THEN f
       ELSE IF ~(force_render \/ line_is_shorter) THEN Line_layout_kept(f, new_layout)
       ELSE Line_layout_kept(
                Terminal_clear_rest_of_line(
                    Terminal_goto(f, IF IsSome(new_end) THEN Unwrap(new_end)
                                     ELSE f.terminal.cursor_position)),
                new_layout)

Line_update(f, location, force_render) ==
    LET line == f.self
        previous_end == IF IsSome(line.current.layout)
                        THEN LineLayout_end_position(Unwrap(line.current.layout))
                        ELSE None
    IN IF f.result /= "Ok" THEN f
       ELSE IF ~force_render /\ ~Line_has_changes(line)
       THEN IF line.current.segments = <<>>
            THEN With_value(f, LineLayout_new(line.identifier, <<>>))
            ELSE IF line.current.layout = None THEN [f EXCEPT !.result = "panic"]
            ELSE With_value(f, Unwrap(line.current.layout))
       ELSE Line_update_end(
                Line_render(IF IsSome(line.alternate)
                            THEN [f EXCEPT !.self =
                                     prune_segments(Line_swap_alternate(line),
                                                    line.current.segments)]
                            ELSE f,
                            location, force_render, line.current.segments),
                previous_end, force_render)

\* ---- Interface::render and Interface::apply_changes (interface.rs)

\* The rest of one pass of the loop of Interface::render, the line updated.
Interface_rendered_line(f, line_id, previous_layout, forced, updated) ==
    IF updated.result /= "Ok"
    THEN [f EXCEPT !.self.lines[line_id] = updated.self,
                   !.terminal = updated.terminal,
                   !.result = updated.result]
    ELSE [f EXCEPT
            !.self.lines[line_id] = updated.self,
            !.terminal = updated.terminal,
            !.at = pos(@.x, @.y + LineLayout_wrapped_line_count(updated.value)),
            !.force_render = \/ forced
                             \/ LineLayout_wrapped_line_count(Unwrap(previous_layout))
                                  /= LineLayout_wrapped_line_count(updated.value),
            !.layouts = Append(@, updated.value)]

\* One pass of the loop of Interface::render: the line at `index` (0-based).
Interface_render_line(f, index, previous_lines) ==
    LET self == f.self
        line_id == self.current.lines[index + 1]
        kept == Vec_get(previous_lines, index) = Some(line_id)
        previous_layout == IF kept
                           THEN Some(Unwrap(self.current.layout).lines[index + 1])
                           ELSE None
        forced == f.force_render \/ ~kept
    IN IF kept /\ (self.current.layout = None
                   \/ index >= Len(Unwrap(self.current.layout).lines))
       THEN [f EXCEPT !.result = "panic"]
       ELSE IF line_id \notin DOMAIN self.lines THEN [f EXCEPT !.result = "panic"]
       ELSE Interface_rendered_line(
                f, line_id, previous_layout, forced,
                IF ~forced /\ ~Line_has_changes(self.lines[line_id])
                THEN Ret(self.lines[line_id], f.terminal, "Ok", Unwrap(previous_layout))
                ELSE Line_update(Ret(self.lines[line_id], f.terminal, "Ok", None),
                                 f.at, forced))

RECURSIVE Interface_render_from(_, _, _)
Interface_render_from(f, index, previous_lines) ==
    IF f.result /= "Ok" \/ index >= Len(f.self.current.lines) THEN f
    ELSE Interface_render_from(Interface_render_line(f, index, previous_lines),
                               index + 1, previous_lines)

Interface_render(f, force_render, previous_lines) ==
    Interface_render_from(Loop(f, pos(0, 0), force_render), 0, previous_lines)

\* clear_overflow from the row `line` on
RECURSIVE clear_overflow(_, _, _)
clear_overflow(f, line, previous_length) ==
    IF f.result /= "Ok" \/ line >= previous_length THEN f
    ELSE clear_overflow(Terminal_clear_line(Terminal_goto(f, pos(0, line))),
                        line + 1, previous_length)

\* A cursor of the Interface: absolute, or relative to a segment of a line.
Absolute(column, row) == [kind |-> "Absolute", at |-> pos(column, row)]
Relative(line_id, segment_id, position) ==
    [kind |-> "Relative", line_id |-> line_id, segment_id |-> segment_id,
     position |-> position]

\* apply_changes: the committed cursor is placed and shown, or hidden.
apply_cursor(f, new_layout) ==
    LET position == Unwrap(f.self.current.cursor)
        absolute == IF position.kind = "Absolute" THEN Some(position.at)
                    ELSE get_absolute_position(new_layout, position)
    IN IF f.result /= "Ok" THEN f
       ELSE IF f.self.current.cursor = None THEN Terminal_hide_cursor(f)
       ELSE IF absolute = None THEN [f EXCEPT !.result = "CursorPositionInvalid"]
       ELSE Terminal_show_cursor(Terminal_goto(f, Unwrap(absolute)))

\* self.current.layout = Some(new_layout)
Interface_layout_kept(f, new_layout) ==
    IF f.result /= "Ok" THEN f
    ELSE [f EXCEPT !.self.current.layout = Some(new_layout)]

\* apply_changes from the overflow on: clear it, place the cursor, keep the
\* layout, flush, return the layout.
apply_changes_finish(f, terminal_size, previous_length) ==
    LET new_layout == InterfaceLayout_new(f.layouts, terminal_size) IN
    IF f.result /= "Ok" THEN f
    ELSE With_value(
             Terminal_flush(
                 Interface_layout_kept(
                     apply_cursor(clear_overflow(f, rendered_line_count(new_layout),
                                                 previous_length),
                                  new_layout),
                     new_layout)),
             Some(new_layout))

\* apply_changes: the alternate, if there is one, becomes current and the
\* lines it dropped are pruned.
Interface_swapped(f) ==
    IF f.result = "Ok" /\ IsSome(f.self.alternate)
    THEN [f EXCEPT !.self = prune_lines(Interface_swap_alternate(f.self),
                                        f.self.current.lines)]
    ELSE f

\* apply_changes after the size test: return what is rendered, or render.
apply_changes_render(f, force_render, terminal_size) ==
    IF f.result /= "Ok" THEN f
    ELSE IF ~Interface_has_changes(f.self) /\ ~force_render
    THEN IF f.self.current.layout = None THEN [f EXCEPT !.result = "panic"]
         ELSE With_value(f, f.self.current.layout)
    ELSE apply_changes_finish(
             Interface_render(Interface_swapped(Terminal_hide_cursor(f)), force_render,
                              f.self.current.lines),
             terminal_size,
             IF IsSome(f.self.current.layout)
             THEN rendered_line_count(Unwrap(f.self.current.layout))
             ELSE 0)

apply_changes(self) ==
    LET terminal_size == self.terminal.size
        resized == /\ IsSome(self.current.layout)
                   /\ terminal_size /= Unwrap(self.current.layout).terminal_size
        start == Ret(self, self.terminal, "Ok", None)
    IN apply_changes_render(IF resized THEN Terminal_reset(start) ELSE start,
                            ~self.allow_optimization \/ resized, terminal_size)

\* What the caller of a rendering call has: the Interface with its terminal.
Returned(f) ==
    [self |-> [f.self EXCEPT !.terminal = f.terminal],
     result |-> f.result,
     value |-> IF f.result = "Ok" THEN f.value ELSE None]

\* ---- The Interface of lines run: `current`, `alternate`, `lines` and
\* `allow_optimization` are its fields, `term` is its Terminal, `out` what the
\* last call wrote to the Device, `op` the last call and what it returned.

\* Identifiers handed out in one run, calls in one run, terminal widths.
MaxLines == 2
MaxSegments == 2
MaxCalls == 5
TerminalSizes == {<<8, 4>>, <<9, 4>>}
LineTexts == {<<"A">>, <<"A", "B">>, <<"\n">>}
LineCursors == {Absolute(0, 0), Relative(0, 0, 0), Relative(0, 0, 3)}
\* The greatest identifier is never handed out: it stands for the identifier
\* of a line or segment of another Interface.
LineIds == 0..MaxLines
SegmentIds == 0..MaxSegments

Self ==
    [current |-> current, alternate |-> alternate, lines |-> lines,
     allow_optimization |-> allow_optimization, terminal |-> term]

\* A call on the Interface that returned `ret`.  Nothing is called after a
\* panic.
Call(name, ret) ==
    /\ steps < MaxCalls
    /\ op.result /= "panic"
    /\ current' = ret.self.current
    /\ alternate' = ret.self.alternate
    /\ lines' = ret.self.lines
    /\ allow_optimization' = ret.self.allow_optimization
    /\ term' = [ret.self.terminal EXCEPT !.written = <<>>, !.failing = 0]
    /\ out' = ret.self.terminal.written
    /\ op' = [name |-> name, result |-> ret.result, value |-> ret.value]
    /\ steps' = steps + 1
    /\ UNCHANGED <<mode, exited, cursor, staged_cursor, hist>>

\* The call `on_line` made on the line got with get_line_mut(line_id).
Line_call(name, line_id, on_line) ==
    IF line_id \notin DOMAIN lines THEN Call(name, Err(Self, "LineIdInvalid"))
    ELSE Call(name, [self |-> [Self EXCEPT !.lines[line_id] = on_line.self],
                     result |-> on_line.result, value |-> on_line.value])

Call_add_line ==
    /\ ID_VALUE.line < MaxLines
    /\ Call("add_line", add_line(Self, ID_VALUE.line))
    /\ ID_VALUE' = [ID_VALUE EXCEPT !.line = @ + 1]

Call_insert_line(index) ==
    LET ret == insert_line(Self, index, ID_VALUE.line) IN
    /\ ID_VALUE.line < MaxLines
    /\ Call("insert_line", ret)
    /\ ID_VALUE' = IF ret.result = "Ok" THEN [ID_VALUE EXCEPT !.line = @ + 1]
                   ELSE ID_VALUE

Call_remove_line(id) ==
    /\ Call("remove_line", remove_line(Self, id))
    /\ UNCHANGED ID_VALUE

Call_remove_line_at(index) ==
    /\ Call("remove_line_at", remove_line_at(Self, index))
    /\ UNCHANGED ID_VALUE

Call_move_segment(segment_id, from_line_id, to_line_id) ==
    /\ Call("move_segment", move_segment(Self, segment_id, from_line_id, to_line_id))
    /\ UNCHANGED ID_VALUE

Call_set_cursor(position) ==
    /\ Call("set_cursor", Ok(Interface_set_cursor(Self, Some(position)), None))
    /\ UNCHANGED ID_VALUE

Call_hide_cursor ==
    /\ Call("hide_cursor", Ok(hide_cursor(Self), None))
    /\ UNCHANGED ID_VALUE

Call_set_optimization(allow) ==
    /\ Call("set_optimization", Ok(set_optimization(Self, allow), None))
    /\ UNCHANGED ID_VALUE

\* get_line_mut(line_id)?.add_segment()
Call_add_segment(line_id) ==
    /\ ID_VALUE.segment < MaxSegments
    /\ line_id \in DOMAIN lines
    /\ Line_call("add_segment", line_id,
                 Ok(add_segment(lines[line_id], ID_VALUE.segment),
                    Some(ID_VALUE.segment)))
    /\ ID_VALUE' = [ID_VALUE EXCEPT !.segment = @ + 1]

\* get_line_mut(line_id)?.remove_segment_at(index)
Call_remove_segment_at(line_id, index) ==
    /\ line_id \in DOMAIN lines
    /\ Line_call("remove_segment_at", line_id, remove_segment_at(lines[line_id], index))
    /\ UNCHANGED ID_VALUE

\* get_line_mut(line_id)?.get_segment_mut(segment_id)?.set_text(text)
Call_set_text(line_id, segment_id, text) ==
    /\ line_id \in DOMAIN lines
    /\ segment_id \in DOMAIN lines[line_id].segments
    /\ Line_call("set_text", line_id,
                 Ok([lines[line_id] EXCEPT !.segments[segment_id] =
                        Segment_set_text(@, text)],
                    None))
    /\ UNCHANGED ID_VALUE

\* apply_changes() during which the Device write numbered `failing` fails.
Call_apply_changes(failing) ==
    /\ Call("apply_changes",
            Returned(apply_changes([Self EXCEPT !.terminal.failing = failing])))
    /\ UNCHANGED ID_VALUE

\* The user resizes the terminal window.
Resize(terminal_size) ==
    /\ steps < MaxCalls
    /\ op.result /= "panic"
    /\ terminal_size /= term.size
    /\ term' = [term EXCEPT !.size = terminal_size]
    /\ op' = [name |-> "resize", result |-> "Ok", value |-> None]
    /\ out' = <<>>
    /\ steps' = steps + 1
    /\ UNCHANGED <<mode, exited, current, alternate, cursor, staged_cursor, hist>>
    /\ UNCHANGED line_vars

\* Interface::new: nothing rendered, no lines, optimization allowed.
InitLines ==
    /\ mode = "Unconstructed"
    /\ exited = FALSE
    /\ current = [cursor |-> None, lines |-> <<>>, layout |-> None]
    /\ alternate = None
    /\ cursor = pos(0, 0)
    /\ staged_cursor = None
    /\ term = Terminal_of(<<8, 4>>, 0)
    /\ out = <<>>
    /\ op = [name |-> "new", result |-> "Ok", value |-> None]
    /\ hist = [batch |-> <<>>, in_view |-> TRUE]
    /\ steps = 0
    /\ NoLines

NextLines ==
    \/ Call_add_line
    \/ \E index \in 0..(MaxLines + 1) : Call_insert_line(index)
    \/ \E id \in LineIds : Call_remove_line(id)
    \/ \E index \in 0..MaxLines : Call_remove_line_at(index)
    \/ \E segment_id \in SegmentIds, from_line_id \in LineIds, to_line_id \in LineIds :
          Call_move_segment(segment_id, from_line_id, to_line_id)
    \/ \E position \in LineCursors : Call_set_cursor(position)
    \/ Call_hide_cursor
    \/ \E allow \in BOOLEAN : Call_set_optimization(allow)
    \/ \E line_id \in LineIds : Call_add_segment(line_id)
    \/ \E line_id \in LineIds, index \in 0..MaxSegments :
          Call_remove_segment_at(line_id, index)
    \/ \E line_id \in LineIds, segment_id \in SegmentIds, text \in LineTexts :
          Call_set_text(line_id, segment_id, text)
    \/ \E failing \in 0..Len(apply_changes(Self).terminal.written) :
          Call_apply_changes(failing)
    \/ \E terminal_size \in TerminalSizes : Resize(terminal_size)

SpecLines == InitLines /\ [][NextLines]_vars

----------------------------------------------------------------------------
(* Claims *)

RowMajorLess(a, b) == a.y < b.y \/ (a.y = b.y /\ a.x < b.x)

\* The positions of the Print commands among commands `o`, in order.
Printed(o) ==
    LET prints == SelectSeq(o, LAMBDA c : c.cmd = "Print")
    IN [i \in 1..Len(prints) |-> prints[i].at]

\* The screen shows the cell `cell` (None: a blank) at viewport position p.
Shows(p, cell) ==
    IF IsSome(cell) THEN term.screen[p].grapheme = Unwrap(cell).grapheme
    ELSE IsBlank(term.screen[p])

C2_ApplyNothingStaged ==
    [][(op'.name = "apply" /\ alternate = None) =>
          /\ op'.result = "Ok"
          /\ out' = <<>>
          /\ current' = current
          /\ alternate' = None
          /\ term' = term]_vars

\* An apply() with nothing staged happened after content had been committed.
C2_Witness ==
    op.name = "apply" /\ out = <<>> /\ DOMAIN current.cells /= {}

C6_StagingFrame ==
    [][/\ op'.name \in StagingNames =>
            out' = <<>> /\ current' = current /\ term' = term /\ cursor' = cursor
       /\ (term'.screen /= term.screen \/ current' /= current) =>
            op'.name = "apply"]_vars

\* A staging operation left staged cells that differ from committed content.
C6_Witness ==
    /\ op.name \in StagingNames
    /\ DOMAIN current.cells /= {}
    /\ Unwrap(alternate).cells /= current.cells

wrapped_place(position, i) ==
    pos((position.x + i - 1) % SizeX, position.y + ((position.x + i - 1) \div SizeX))

\* C8: set stores the clusters at consecutive columns, wrapping to column 0
\* of the next row after column SizeX - 1; no cell is stored at a column
\* >= SizeX.
C8_WrapAtLastColumn ==
    op.name \in {"set", "set_styled"} =>
        /\ \A i \in 1..Len(op.text) :
              get(Unwrap(alternate).cells, wrapped_place(Unwrap(op.position), i))
                  = Some(Cell(op.text[i], op.style))
        /\ \A p \in DOMAIN Unwrap(alternate).cells : p.x < SizeX

C10_ClearLineFrame ==
    [][op'.name = "clear_line" =>
          LET before == Staged
              after == Unwrap(alternate')
              removed == {p \in DOMAIN before.cells : p.y = Unwrap(op'.position).y}
          IN /\ DOMAIN after.cells = (DOMAIN before.cells) \ removed
             /\ \A p \in DOMAIN after.cells : after.cells[p] = before.cells[p]
             /\ after.dirty = before.dirty \cup removed]_vars

\* clear_line removed a cell of its row while another row kept its cells and
\* a position of the row that held no cell stayed out of dirty.
C10_Witness ==
    /\ op.name = "clear_line"
    /\ \E p \in Unwrap(alternate).dirty : p.y = Unwrap(op.position).y
    /\ \E p \in DOMAIN Unwrap(alternate).cells : p.y /= Unwrap(op.position).y
    /\ \E p \in PosUniverse :
          p.y = Unwrap(op.position).y /\ p \notin Unwrap(alternate).dirty

\* C11: clear_rest_of_line(from) removes exactly the cells of row from.y at
\* columns >= from.x and adds exactly their positions to dirty; the cells left
\* of from.x in that row and the cells of every other row stay as they were.
C11_ClearRestOfLineFrame ==
    [][op'.name = "clear_rest_of_line" =>
          LET before == Staged
              after == Unwrap(alternate')
              from == Unwrap(op'.position)
              removed == {p \in DOMAIN before.cells :
                            p.y = from.y /\ p.x >= from.x}
          IN /\ DOMAIN after.cells = (DOMAIN before.cells) \ removed
             /\ \A p \in DOMAIN after.cells : after.cells[p] = before.cells[p]
             /\ after.dirty = before.dirty \cup removed]_vars

\* clear_rest_of_line removed a cell of its row from a column > 0 on, while a
\* cell left of it in that row and a cell of another row were kept, neither
\* of them dirtied by the clear.
C11_Witness ==
    /\ op.name = "clear_rest_of_line"
    /\ LET from == Unwrap(op.position)
           after == Unwrap(alternate)
       IN /\ \E p \in after.dirty :
                p.y = from.y /\ p.x >= from.x /\ p \notin DOMAIN after.cells
          /\ \E p \in DOMAIN after.cells : p.y = from.y /\ p.x < from.x
          /\ \E p \in DOMAIN after.cells : p.y /= from.y

\* C12: clear_rest_of_interface(from) removes exactly the cells at or after
\* `from` in (row, column) order - row from.y from column from.x on and the
\* whole of every later row - and adds exactly their positions to dirty; the
\* cells before `from` stay as they were.
C12_ClearRestOfInterfaceFrame ==
    [][op'.name = "clear_rest_of_interface" =>
          LET before == Staged
              after == Unwrap(alternate')
              from == Unwrap(op'.position)
              removed == {p \in DOMAIN before.cells :
                            p.y > from.y \/ (p.y = from.y /\ p.x >= from.x)}
          IN /\ DOMAIN after.cells = (DOMAIN before.cells) \ removed
             /\ \A p \in DOMAIN after.cells : after.cells[p] = before.cells[p]
             /\ after.dirty = before.dirty \cup removed]_vars

\* clear_rest_of_interface removed a cell of a later row at a column left of
\* from.x, and kept a cell before `from`.
C12_Witness ==
    /\ op.name = "clear_rest_of_interface"
    /\ LET from == Unwrap(op.position)
           after == Unwrap(alternate)
       IN /\ \E p \in after.dirty :
                p.y > from.y /\ p.x < from.x /\ p \notin DOMAIN after.cells
          /\ \E p \in DOMAIN after.cells : p.y = from.y /\ p.x < from.x

\* The committed grid is the single cell `cell` at viewport position p and
\* the screen shows just that: the state set(p, "X"); apply() leaves.
OnlyCellRendered(p) ==
    /\ DOMAIN current.cells = {p}
    /\ current.dirty = {}
    /\ \A q \in Viewport :
          IF q = p THEN term.screen[q].grapheme = current.cells[p].grapheme
          ELSE IsBlank(term.screen[q])

StyleOf(cell) == IF IsSome(cell.style) THEN Unwrap(cell.style) ELSE Style_default

C15_DirtyIterEntries ==
    LET state == Staged
        entries == dirty_iter(state)
    IN /\ Len(entries) = Cardinality(state.dirty)
       /\ {entries[i][1] : i \in 1..Len(entries)} = state.dirty
       /\ \A i, j \in 1..Len(entries) :
             i < j => RowMajorLess(entries[i][1], entries[j][1])
       /\ \A i \in 1..Len(entries) :
             entries[i][2] = IF entries[i][1] \in DOMAIN state.cells
                             THEN Some(state.cells[entries[i][1]])
                             ELSE None

\* A position set and then cleared within the batch (never committed) is
\* yielded with None, next to a dirty position yielded with its cell.
C15_Witness ==
    /\ alternate /= None
    /\ \E i, j \in 1..Len(dirty_iter(Staged)) :
          LET removed == dirty_iter(Staged)[i]
              stored == dirty_iter(Staged)[j]
          IN /\ removed[2] = None
             /\ removed[1] \notin DOMAIN current.cells
             /\ hist.batch[removed[1]].n = 2
             /\ hist.batch[removed[1]].cleared
             /\ IsSome(stored[2])

\* The positions of the Print commands among commands `o`, as a set.
PrintedSet(o) == {Printed(o)[i] : i \in 1..Len(Printed(o))}

C17_ClearDirtyFrame ==
    [][(op'.name = "apply" /\ alternate /= None) =>
          LET staged == Unwrap(alternate) IN
          /\ clear_dirty(staged).dirty = {}
          /\ clear_dirty(staged).cells = staged.cells
          /\ current'.cells = staged.cells]_vars

\* An apply() committed a state that had both cells and dirty positions.
C17_Witness ==
    /\ op.name = "apply"
    /\ PrintedSet(out) /= {}
    /\ DOMAIN current.cells /= {}
    /\ current.dirty = {}

\* The terminal cursor of `t` is at interface position p: at p itself on the
\* alternate screen, at p counted from the origin row in relative mode.
Located(t, p) ==
    IF mode = "Absolute" THEN t.cur = p ELSE t.cur = pos(p.x, t.origin + p.y)

C19_CursorVisibleAfterExit ==
    [][op'.name = "exit" => term'.visible]_vars

\* exit() in relative mode after an apply() had committed content (and
\* hidden the cursor): Show Cursor was written and the cursor is visible.
C19_Witness ==
    /\ op.name = "exit"
    /\ mode = "Relative"
    /\ DOMAIN current.cells /= {}
    /\ term.visible
    /\ SelectSeq(out, LAMBDA c : c.cmd = "Show") /= <<>>

\* The greatest row that holds a committed cell.
LastRow == CHOOSE y \in {p.y : p \in DOMAIN current.cells} :
               \A p \in DOMAIN current.cells : p.y <= y

C23_FailedApplyThenRetry ==
    [][/\ (op'.name = "apply" /\ op'.result = "Err") =>
            /\ alternate /= None
            /\ current'.cells = Unwrap(alternate).cells
            /\ alternate' = None
       /\ (op.name = "apply" /\ op.result = "Err" /\ op'.name = "apply") =>
            /\ op'.result = "Ok"
            /\ out' = <<>>
            /\ term' = term
            /\ current' = current]_vars

\* The apply() repeated after one that failed part-way: the terminal shows
\* one of the committed cells that were to be printed and not another.
C23_Witness ==
    /\ op.name = "apply"
    /\ op.result = "Ok"
    /\ out = <<>>
    /\ alternate = None
    /\ \E p, q \in current.dirty \cap Viewport \cap DOMAIN current.cells :
          /\ term.screen[p].grapheme = current.cells[p].grapheme
          /\ term.screen[q].grapheme = ""

\* C24: Position's comparison is the strict total order by row, then column:
\* a < b iff a.y < b.y or (a.y = b.y and a.x < b.x); of a < b, a = b, b < a
\* exactly one holds; cmp and partial_cmp agree; Equal is returned only for
\* identical coordinates.
C24_PositionOrder ==
    op.name = "cmp" =>
        /\ (op.result = "Less") = RowMajorLess(op.a, op.b)
        /\ (op.result = "Greater") = RowMajorLess(op.b, op.a)
        /\ (op.result = "Equal") = (op.a.x = op.b.x /\ op.a.y = op.b.y)
        /\ op.result \in {"Less", "Equal", "Greater"}
        /\ op.partial = Some(op.result)

\* A comparison that row order and column order decide differently.
C24_Witness ==
    /\ op.name = "cmp"
    /\ op.a.x > op.b.x
    /\ op.a.y < op.b.y
    /\ op.result = "Less"

\* C25: translate(dx, dy) returns (min(x + dx, 65535), min(y + dy, 65535))
\* for every position and every dx, dy, without a panic and without wrapping
\* around.
C25_TranslateSaturates ==
    op.name = "translate" =>
        /\ op.result = "Ok"
        /\ op.value = pos(Min(op.a.x + op.b.x, U16_MAX), Min(op.a.y + op.b.y, U16_MAX))

\* C26: no State holds a cell with an empty grapheme, whatever was set on it,
\* a direct set_text with an empty grapheme included.
C26_NoEmptyGrapheme ==
    \A p \in DOMAIN current.cells : current.cells[p].grapheme /= ""

\* C27: get_last_position returns the greatest position in (row, column)
\* order among those that hold a cell, whatever the order they were set in,
\* and None when no position holds a cell, also after clears removed them all.
C27_LastPosition ==
    LET last == get_last_position(current) IN
    IF DOMAIN current.cells = {}
    THEN last = None
    ELSE /\ IsSome(last)
         /\ Unwrap(last) \in DOMAIN current.cells
         /\ \A q \in DOMAIN current.cells :
               q = Unwrap(last) \/ RowMajorLess(q, Unwrap(last))

\* A cell was set last at a greater column of an earlier row than the last
\* position, which stays the one of the later row.
C27_Witness ==
    /\ op.name = "set_text"
    /\ IsSome(get_last_position(current))
    /\ Unwrap(op.position).y < Unwrap(get_last_position(current)).y
    /\ Unwrap(op.position).x > Unwrap(get_last_position(current)).x
    /\ Unwrap(op.position) \in DOMAIN current.cells

\* The interface position of the terminal cursor of `t`: its screen position
\* (the last column while a wrap is pending after a print there), counted
\* from the origin row in relative mode.
ActualCursor(t) ==
    pos(Min(t.cur.x, SizeX - 1),
        IF mode = "Absolute" THEN t.cur.y ELSE t.cur.y - t.origin)

\* From dirty cell `index` on, at every print the tracked cursor is the
\* position of the terminal cursor.
RECURSIVE CursorsAgree(_, _, _)
CursorsAgree(dirty_cells, index, st) ==
    IF index > Len(dirty_cells) THEN TRUE
    ELSE LET at == move_cursor(st, dirty_cells[index][1]) IN
         /\ at.cursor = ActualCursor(at.term)
         /\ CursorsAgree(dirty_cells, index + 1,
                         emit_cell(st, dirty_cells[index][1], dirty_cells[index][2]))

MotionNames == {"MoveTo", "Right", "Left", "Down", "Up"}

\* The index in commands `o` of the Print at position p.
PrintIndex(o, p) == CHOOSE i \in 1..Len(o) : o[i].cmd = "Print" /\ o[i].at = p

MotionsFor(c, t) ==
    (IF t.x > c.x THEN <<[cmd |-> "Right", n |-> t.x - c.x]>>
     ELSE IF t.x < c.x THEN <<[cmd |-> "Left", n |-> c.x - t.x]>>
     ELSE <<>>)
    \o (IF t.y > c.y THEN <<[cmd |-> "Down", n |-> t.y - c.y]>>
        ELSE IF t.y < c.y THEN <<[cmd |-> "Up", n |-> c.y - t.y]>>
        ELSE <<>>)

\* The motions among commands `o`, in order, with their counts.
MotionsOf(o) ==
    LET motions == SelectSeq(o, LAMBDA c : c.cmd \in MotionNames)
    IN [i \in 1..Len(motions) |-> [cmd |-> motions[i].cmd, n |-> motions[i].n]]

\* C30: in relative cursor mode a move from the tracked cursor c to a target
\* t emits Right(t.x - c.x) or Left(c.x - t.x) for a column delta other than
\* zero, then t.y - c.y line feeds or Up(c.y - t.y) for a row delta other
\* than zero, and no absolute Move To; afterwards the tracked cursor is t.
C30_RelativeMotions ==
    [][(mode = "Relative" /\ op'.name = "move_cursor") =>
          /\ op'.result = "Ok"
          /\ MotionsOf(out') = MotionsFor(cursor, Unwrap(op'.position))
          /\ cursor' = Unwrap(op'.position)]_vars

\* The positions the staging operation recorded in o writes or clears.
Touched(o) ==
    IF o.name \in {"set", "set_styled"}
    THEN {placements(Unwrap(o.position), Len(o.text))[i] : i \in 1..Len(o.text)}
    ELSE IF o.name = "clear_line"
    THEN {q \in PosUniverse : q.y = Unwrap(o.position).y}
    ELSE {}

\* C31: the alternate is a copy of current only for the first staging
\* operation after construction or after an apply(); every later staging
\* operation of the batch works on the alternate that is already there.  So a
\* staging operation leaves every cell it does not touch as the batch had it
\* staged, and leaves current alone.
C31_AlternateClonedOncePerBatch ==
    [][(op'.name \in {"set", "clear_line", "set_cursor"} /\ steps' = steps + 1)
        => LET base == IF alternate = None THEN current ELSE Unwrap(alternate) IN
           /\ IsSome(alternate')
           /\ current' = current
           /\ \A p \in PosUniverse \ Touched(op') :
                 get(Unwrap(alternate').cells, p) = get(base.cells, p)]_vars

\* A later staging operation of a batch has acted, and a cell that an earlier
\* operation of the batch changed and this one did not touch is still staged.
C31_Witness ==
    /\ IsSome(alternate)
    /\ op.name \in {"set", "clear_line", "set_cursor"}
    /\ \E p \in (DOMAIN hist.batch) \ Touched(op) :
          /\ hist.batch[p].changed
          /\ get(Unwrap(alternate).cells, p) /= get(current.cells, p)

\* The indices of text whose grapheme is not the one previous_text has there.
Differing(text, previous_text) ==
    {i \in 0..(Len(text) - 1) :
        i >= Len(previous_text) \/ text[i + 1] /= previous_text[i + 1]}

\* C40: get_chunks returns half-open ranges [start, end) that are non-empty,
\* ordered, disjoint and not adjacent, and that cover exactly the indices of
\* text at which previous_text has a different grapheme or none.
C40_ChunksAreTheDifferences ==
    op.name = "get_chunks" =>
        LET chunks == op.value IN
        /\ \A k \in 1..Len(chunks) : chunks[k][1] < chunks[k][2]
        /\ \A k \in 1..(Len(chunks) - 1) : chunks[k][2] < chunks[k + 1][1]
        /\ {i \in 0..MaxTextLength :
               \E k \in 1..Len(chunks) : chunks[k][1] <= i /\ i < chunks[k][2]}
             = Differing(op.text, op.previous_text)
        /\ \A k \in 1..Len(chunks) : chunks[k][2] <= Len(op.text)

\* get_chunks returned two chunks, the second reaching past the end of the
\* previous text.
C40_Witness ==
    /\ op.name = "get_chunks"
    /\ Len(op.value) = 2
    /\ op.value[2][2] > Len(op.previous_text)

\* C32: apply_changes() called while has_changes() is false, optimization is
\* allowed and the terminal has the size of the last render returns Ok with
\* the layout rendered before and writes nothing; an Interface that has never
\* rendered is included.
C32_ApplyWithoutChanges ==
    [][(/\ op'.name = "apply_changes"
        /\ ~Interface_has_changes(Self)
        /\ allow_optimization
        /\ (IsSome(current.layout) => Unwrap(current.layout).terminal_size = term.size))
        => /\ op'.result = "Ok"
           /\ op'.value = current.layout
           /\ IsSome(op'.value)
           /\ out' = <<>>]_vars

\* C33: after an apply_changes() that returned Ok the line store holds only
\* lines of the current ordering, whatever lines were added and removed
\* before, a line added and removed within one batch included.
C33_StoreHoldsOnlyCurrentLines ==
    (op.name = "apply_changes" /\ op.result = "Ok")
        => \A id \in DOMAIN lines : Vec_contains(current.lines, id)

\* C34: every LineId of the current ordering and of the staged ordering is a
\* key of the line store, in every reachable state; so lines() and
\* has_changes() find every line they look up.
C34_OrderingsAreStored ==
    /\ \A i \in 1..Len(current.lines) : current.lines[i] \in DOMAIN lines
    /\ IsSome(alternate) =>
          \A i \in 1..Len(Unwrap(alternate).lines) :
              Unwrap(alternate).lines[i] \in DOMAIN lines

\* An apply_changes() has pruned a removed line from the store and a line that
\* stayed in the ordering is still stored.
C34_Witness ==
    /\ op.name = "apply_changes"
    /\ current.lines /= <<>>
    /\ \E id \in 0..(ID_VALUE.line - 1) : id \notin DOMAIN lines

\* C35: a line operation that returns an error leaves no new staged change:
\* insert_line with an index above the count and remove_line_at with an index
\* at or above it (LineOutOfBounds) and remove_line with an unknown id
\* (LineIdInvalid) leave line_ids() and has_changes() as they were.
C35_FailedLineOperationStagesNothing ==
    [][(/\ op'.name \in {"insert_line", "remove_line_at", "remove_line"}
        /\ op'.result \in {"LineOutOfBounds", "LineIdInvalid"}
        /\ steps' = steps + 1)
          => /\ line_ids(Self)' = line_ids(Self)
             /\ Interface_has_changes(Self)' = Interface_has_changes(Self)]_vars

\* C36: move_segment(segment, from, to) either succeeds, and then the segment
\* id is the last of to's segment ids and no longer among from's, or returns
\* an error and changes nothing: a segment that was listed in from's segment
\* ids is still listed there.
C36_MoveSegmentIsAllOrNothing ==
    [][\A segment_id \in SegmentIds, from_line_id \in LineIds, to_line_id \in LineIds :
        LET ret == move_segment(Self, segment_id, from_line_id, to_line_id) IN
        (/\ op'.name = "move_segment"
         /\ steps' = steps + 1
         /\ op'.result = ret.result
         /\ lines' = ret.self.lines)
          => IF ret.result = "Ok"
             THEN /\ segment_ids(lines'[to_line_id]) /= <<>>
                  /\ segment_ids(lines'[to_line_id])[Len(segment_ids(lines'[to_line_id]))]
                        = segment_id
                  /\ from_line_id /= to_line_id
                        => ~Vec_contains(segment_ids(lines'[from_line_id]), segment_id)
             ELSE /\ lines' = lines
                  /\ (/\ from_line_id \in DOMAIN lines
                      /\ Vec_contains(segment_ids(lines[from_line_id]), segment_id))
                        => Vec_contains(segment_ids(lines'[from_line_id]), segment_id)]_vars

\* C37: remove_segment_at(index) returns SegmentOutOfBounds for every index at
\* or above the line's segment count, a line without segments included, and
\* otherwise removes and returns exactly the id at that index; it never
\* panics.
C37_RemoveSegmentAtIsBoundsChecked ==
    [][\A line_id \in DOMAIN lines, index \in 0..MaxSegments :
        LET ids == segment_ids(lines[line_id])
            ret == remove_segment_at(lines[line_id], index)
        IN (/\ op'.name = "remove_segment_at"
            /\ steps' = steps + 1
            /\ op'.result = ret.result
            /\ op'.value = ret.value
            /\ lines' = [lines EXCEPT ![line_id] = ret.self])
             => IF index >= Len(ids)
                THEN op'.result = "SegmentOutOfBounds"
                ELSE /\ op'.result = "Ok"
                     /\ op'.value = Some(ids[index + 1])
                     /\ segment_ids(lines'[line_id]) = Vec_remove(ids, index)]_vars

\* C38: after apply_changes() returns Ok nothing is staged: has_changes() is
\* false for the Interface, for every line of the current ordering and for
\* every segment of those lines' current orderings.
C38_NothingStagedAfterApply ==
    (op.name = "apply_changes" /\ op.result = "Ok")
        => /\ ~Interface_has_changes(Self)
           /\ alternate = None
           /\ \A i \in 1..Len(current.lines) :
                LET line == lines[current.lines[i]] IN
                /\ ~Line_has_changes(line)
                /\ line.alternate = None
                /\ \A j \in 1..Len(line.current.segments) :
                     LET segment == line.segments[line.current.segments[j]] IN
                     /\ ~Segment_has_changes(segment)
                     /\ segment.alternate = None

\* A successful apply_changes() has rendered a line with a segment that has
\* a text, all of which were staged.
C38_Witness ==
    /\ op.name = "apply_changes"
    /\ op.result = "Ok"
    /\ out /= <<>>
    /\ \E i \in 1..Len(current.lines) :
         LET line == lines[current.lines[i]] IN
         \E j \in 1..Len(line.current.segments) :
             IsSome(line.segments[line.current.segments[j]].current.text)

\* C39: an apply_changes() that returned CursorPositionInvalid leaves the
\* Interface usable: with a hidden cursor or a valid cursor staged after it,
\* the next apply_changes() returns Ok with a layout.
C39_UsableAfterCursorPositionInvalid ==
    (op.name = "apply_changes" /\ op.result = "CursorPositionInvalid")
        => \A staged \in {hide_cursor(Self),
                          Interface_set_cursor(Self, Some(Absolute(0, 0)))} :
              LET next == Returned(apply_changes(staged)) IN
              /\ next.result = "Ok"
              /\ IsSome(next.value)

====
